---- MODULE Spec2Model ----
(***************************************************************************)
(* State-machine model of the keystroke statistics engine of               *)
(* zmk-keystroke-stats (src/src/keystroke_stats.c) and of its settings     *)
(* glue (src/unnamed/part_003, lines 12-174).                              *)
(*                                                                         *)
(* The C functions are run-to-completion operators over a record `state`   *)
(* that mirrors the file-static `state` struct.  Helpers that also touch   *)
(* the delayed save work item or invoke observers take and return a        *)
(* "machine" record [st, work, calls].                                     *)
(*                                                                         *)
(* TLC integers are 32-bit signed.  Every uint32_t of the model (counters, *)
(* millisecond timestamps) stays far below 2^31 within the bounds, so the  *)
(* 32-bit wrap of the C code is never reached; narrower conversions        *)
(* (uint8_t day of a history entry, uint8_t speeds) are modelled.          *)
(***************************************************************************)
EXTENDS Integers, Sequences, FiniteSets, TLC

VARIABLES
    state,          \* the file-static `state` struct (keystroke_stats.c:24-78)
    now,            \* k_uptime_get(): milliseconds since boot
    save_work,      \* state.save_work, the delayable work item: "idle" | "scheduled"
    save_due,       \* the uptime at which the delay of save_work expires, while scheduled
    timer_started,  \* periodic_save_timer has been started (keystroke_stats.c:552)
    timer_due,      \* the uptime of the next expiry of periodic_save_timer, once started
    settings_data,  \* the settings entry "keystroke_stats/data" in non-volatile storage
    persist_buf,    \* a caller's struct zmk_keystroke_stats_persist_data buffer
    snap,           \* a caller's struct zmk_keystroke_stats output buffer
    count_out,      \* a caller's uint32_t output cell for zmk_keystroke_stats_get_key_count
    raised,         \* the zmk_keystroke_stats_changed events handed to the event manager
    op,             \* history: the operation performed by the last step, with its input
    ret,            \* history: its return value
    calls,          \* history: the observer invocations it made, in order
    events,         \* history: pressed-key events processed since initialisation
    mutex,          \* stats_mutex: the thread that holds it, or NULL
    lock_count,     \* stats_mutex: how many times its owner has locked it
    pc,             \* per thread: where it is in the operation it executes, or "idle"
    local,          \* per thread: the output buffer or argument of its operation
    undisturbed,    \* history: no rollover, reset or import since initialisation
    typed,          \* history: uptimes of the latest pressed keys, at most WPM_SLOTS of
                    \* them, since the initialisation or the last reset
    hist            \* history of the save path: uptime of the last save request that
                    \* armed the work (last_request), of the earliest timer expiry
                    \* not yet followed by a save attempt (expired_at) and of the
                    \* last save attempt (last_attempt); NoTime where there is none

vars == <<state, now, save_work, save_due, timer_started, timer_due, settings_data,
          persist_buf, snap, count_out, raised, mutex, lock_count, pc, local, op, ret,
          calls, events, undisturbed, typed, hist>>

(***************************************************************************)
(* Build configuration (Kconfig values, scaled down) and program constants *)
(***************************************************************************)
\* CONFIG_ZMK_KEYSTROKE_STATS_MAX_KEY_POSITIONS
MAX_KEY_POSITIONS == 3
\* CONFIG_ZMK_KEYSTROKE_STATS_TOP_KEYS_COUNT (at most MAX_KEY_POSITIONS)
TOP_KEYS_COUNT == 2
\* CONFIG_ZMK_KEYSTROKE_STATS_DAILY_HISTORY_DAYS
DAILY_HISTORY_DAYS == 2
\* CONFIG_ZMK_KEYSTROKE_STATS_DAY_ROLLOVER_HOUR
DAY_ROLLOVER_HOUR == 0
\* CONFIG_ZMK_KEYSTROKE_STATS_WPM_WINDOW_MS
WPM_WINDOW_MS == 5000
\* CONFIG_ZMK_KEYSTROKE_STATS_SESSION_TIMEOUT_MS
SESSION_TIMEOUT_MS == 30000
\* ARRAY_SIZE(state.callbacks)
MAX_CALLBACKS == 4
\* slots of state.wpm_window
WPM_SLOTS == 10
\* PERSIST_DATA_VERSION / SETTINGS_VERSION
PERSIST_DATA_VERSION == 1
\* CONFIG_ZMK_KEYSTROKE_STATS_SAVE_DEBOUNCE_MS
SAVE_DEBOUNCE_MS == 60000
\* CONFIG_ZMK_KEYSTROKE_STATS_SAVE_INTERVAL_MS
SAVE_INTERVAL_MS == 86400000
\* range of uint8_t
U8 == 256
\* half the width of uint32_t: 2^16
U16 == 65536
MS_PER_HOUR == 3600000
HOURS_PER_DAY == 24
EINVAL == 22
ENOMEM == 12
ENOENT == 2
ENOTSUP == 134

(***************************************************************************)
(* Bounds of the model                                                     *)
(***************************************************************************)
\* pressed-key events generated per boot
MaxKeys == 3
\* 24 h steps of the uptime clock
MaxDays == 3
\* 100 ms steps of the uptime clock
MaxShortSteps == 1
\* observers registered in the engine specification (the registry itself holds 4)
MaxObservers == 1
\* largest per-key count drawn for the ranking specification
MaxCount == 3
\* pressed-key events generated in the export/import specification
MaxPersistKeys == 2
\* steps of half a debounce delay taken after a day boundary
MaxHalfDelays == 4
\* keystrokes and days in the specifications that follow the notifications, the
\* total and the save delays
MaxKeysSmall == 1
MaxTypingKeys == 11
\* presses of an evenly typed run
MaxSteadyKeys == 30
MaxDaysSmall == 1
MaxQueueSteps == 3
\* thread-level runs: keystrokes and days
MaxThreadKeys == 2
MaxThreadDays == 1

NULL == "NULL"
\* no uptime recorded
NoTime == 0 - 1
\* an empty buffer / no stored entry / a null struct pointer
NoData == [empty |-> TRUE]
NoHistory == [last_request |-> NoTime, expired_at |-> NoTime, last_attempt |-> NoTime]
Handlers == {"h1", "h2"}
\* the event manager's thread, a display thread that reads snapshots, and an
\* application thread that resets, imports and forces saves
Threads == {"input", "ui", "app", "sysworkq"}
UserData == {"u1", "u2"}
Positions == 0..(MAX_KEY_POSITIONS - 1)
HistoryIdx == 0..(DAILY_HISTORY_DAYS - 1)

ZeroEntry == [year |-> 0, month |-> 0, day |-> 0, keystrokes |-> 0]
ZeroWindow == [keystrokes |-> [i \in 0..(WPM_SLOTS - 1) |-> 0],
               timestamps |-> [i \in 0..(WPM_SLOTS - 1) |-> 0],
               head |-> 0, count |-> 0]
ZeroCallback == [callback |-> NULL, user_data |-> NULL]

\* memset(&state, 0, sizeof(state)) / the static initialiser
ZeroState ==
    [total_keystrokes |-> 0, today_keystrokes |-> 0, yesterday_keystrokes |-> 0,
     session_keystrokes |-> 0, session_start_time |-> 0,
     current_wpm |-> 0, average_wpm |-> 0, peak_wpm |-> 0, total_typing_time_ms |-> 0,
     wpm_window |-> ZeroWindow,
     key_counts |-> [p \in Positions |-> 0],
     daily_history |-> [i \in HistoryIdx |-> ZeroEntry], daily_history_count |-> 0,
     current_uptime_day |-> 0, last_keystroke_time |-> 0,
     callbacks |-> [i \in 0..(MAX_CALLBACKS - 1) |-> ZeroCallback], callback_count |-> 0,
     save_pending |-> FALSE, initialized |-> FALSE]

Min(a, b) == IF a < b THEN a ELSE b

(***************************************************************************)
(* get_uptime_day                                                          *)
(***************************************************************************)
get_uptime_day(t) ==
    LET uptime_hours == t \div MS_PER_HOUR
        diff == uptime_hours - DAY_ROLLOVER_HOUR
        adjusted_hours == IF diff < 0 THEN 0 ELSE diff
    IN  adjusted_hours \div HOURS_PER_DAY

(***************************************************************************)
(* zmk_keystroke_stats_get: the snapshot, with the top-N ranking           *)
(***************************************************************************)
\* mutant: the swap exchanges the positions and leaves the counts where they were
RECURSIVE InnerLoop_PositionsOnly(_, _, _)
InnerLoop_PositionsOnly(top, i, j) ==
    IF j >= MAX_KEY_POSITIONS THEN top
    ELSE IF top[j].count > top[i].count
         THEN InnerLoop_PositionsOnly(
                [top EXCEPT ![i] = [position |-> top[j].position, count |-> top[i].count],
                            ![j] = [position |-> top[i].position, count |-> top[j].count]],
                i, j + 1)
         ELSE InnerLoop_PositionsOnly(top, i, j + 1)

\* one pass of the inner loop, j = i+1 .. MAX_KEY_POSITIONS-1, swapping in place
RECURSIVE InnerLoop(_, _, _)
InnerLoop(top, i, j) ==
    IF j >= MAX_KEY_POSITIONS THEN top
    ELSE IF top[j].count > top[i].count
         THEN InnerLoop([top EXCEPT ![i] = top[j], ![j] = top[i]], i, j + 1)
         ELSE InnerLoop(top, i, j + 1)

\* the outer loop, i = 0 .. TOP_KEYS_COUNT-1; out[i] is stats->top_keys[i]
RECURSIVE OuterLoop(_, _, _)
OuterLoop(top, i, out) ==
    IF i >= TOP_KEYS_COUNT THEN out
    ELSE LET t2 == InnerLoop(top, i, i + 1)
         IN  OuterLoop(t2, i + 1, [out EXCEPT ![i] = t2[i]])

TopKeys(key_counts) ==
    OuterLoop([p \in Positions |-> [position |-> p, count |-> key_counts[p]]], 0,
              [i \in 0..(TOP_KEYS_COUNT - 1) |-> [position |-> 0, count |-> 0]])

zmk_keystroke_stats_get(s) ==
    [total_keystrokes |-> s.total_keystrokes,
     today_keystrokes |-> s.today_keystrokes,
     yesterday_keystrokes |-> s.yesterday_keystrokes,
     last_keystroke_time |-> s.last_keystroke_time,
     current_uptime_day |-> s.current_uptime_day,
     session_keystrokes |-> s.session_keystrokes,
     session_start_time |-> s.session_start_time,
     current_wpm |-> s.current_wpm,
     average_wpm |-> s.average_wpm,
     peak_wpm |-> s.peak_wpm,
     total_typing_time_ms |-> s.total_typing_time_ms,
     top_keys |-> TopKeys(s.key_counts),
     daily_stats_count |-> s.daily_history_count,
     daily_stats |-> [i \in HistoryIdx |->
                        IF i < s.daily_history_count THEN s.daily_history[i]
                        ELSE ZeroEntry]]

(***************************************************************************)
(* zmk_keystroke_stats_get_key_count                                       *)
(***************************************************************************)
\* mutant: a refused call clears the caller's variable
zmk_keystroke_stats_get_key_count_ClearsOutput(heatmap, s, position, count) ==
    IF ~heatmap THEN [rc |-> 0 - ENOTSUP, count |-> count]
    ELSE IF count = <<>> THEN [rc |-> 0 - EINVAL, count |-> count]
    ELSE IF position >= MAX_KEY_POSITIONS THEN [rc |-> 0 - EINVAL, count |-> <<0>>]
    ELSE [rc |-> 0, count |-> <<s.key_counts[position]>>]

\* heatmap is CONFIG_ZMK_KEYSTROKE_STATS_ENABLE_KEY_HEATMAP; count is <<v>> for a
\* pointer to a variable that holds v and <<>> for a NULL pointer.  Returns
\* [rc, count], count being what the pointer leads to afterwards.
zmk_keystroke_stats_get_key_count(heatmap, s, position, count) ==
    IF ~heatmap THEN [rc |-> 0 - ENOTSUP, count |-> count]
    ELSE IF count = <<>> THEN [rc |-> 0 - EINVAL, count |-> count]
    ELSE IF position >= MAX_KEY_POSITIONS THEN [rc |-> 0 - EINVAL, count |-> count]
    ELSE [rc |-> 0, count |-> <<s.key_counts[position]>>]

(***************************************************************************)
(* schedule_save, notify_callbacks                                         *)
(***************************************************************************)
\* mutant: a request that finds the work scheduled leaves its delay running
schedule_save_NoRestart(m) ==
    IF ~m.st.initialized THEN m
    ELSE IF m.work = "scheduled" THEN [m EXCEPT !.asked = TRUE, !.st.save_pending = TRUE]
    ELSE [m EXCEPT !.work = "scheduled", !.due = m.t + SAVE_DEBOUNCE_MS,
                   !.asked = TRUE, !.st.save_pending = TRUE]

\* mutant: the request is honoured before initialisation too
schedule_save_Unguarded(m) ==
    [m EXCEPT !.work = "scheduled", !.due = m.t + SAVE_DEBOUNCE_MS,
              !.asked = TRUE, !.st.save_pending = TRUE]

\* mutant: a request is dropped while save_pending is set
schedule_save_UnlessPending(m) ==
    IF ~m.st.initialized \/ m.st.save_pending THEN m
    ELSE [m EXCEPT !.work = "scheduled", !.due = m.t + SAVE_DEBOUNCE_MS,
                   !.asked = TRUE, !.st.save_pending = TRUE]

\* k_work_cancel_delayable, then k_work_schedule with the debounce delay: the
\* work is due one full delay after this call, whatever it was before
schedule_save(m) ==
    IF ~m.st.initialized THEN m
    ELSE [m EXCEPT !.work = "scheduled", !.due = m.t + SAVE_DEBOUNCE_MS,
                   !.asked = TRUE, !.st.save_pending = TRUE]

\* mutant: the timer expires without asking for a save
periodic_save_handler_Idle(m) == m

\* lines 337-340
periodic_save_handler(m) == schedule_save(m)

\* lines 438-441; returns [m, rc]
zmk_keystroke_stats_save(m) == [m |-> schedule_save(m), rc |-> 0]

\* mutant: the loop invokes the newest observer first
RECURSIVE InvokeFrom_NewestFirst(_, _, _, _)
InvokeFrom_NewestFirst(s, stats, i, acc) ==
    IF i >= s.callback_count THEN acc
    ELSE InvokeFrom_NewestFirst(s, stats, i + 1,
            IF s.callbacks[i].callback # NULL
            THEN <<[callback |-> s.callbacks[i].callback,
                    user_data |-> s.callbacks[i].user_data,
                    stats |-> stats]>> \o acc
            ELSE acc)

RECURSIVE InvokeFrom(_, _, _, _)
InvokeFrom(s, stats, i, acc) ==
    IF i >= s.callback_count THEN acc
    ELSE InvokeFrom(s, stats, i + 1,
            IF s.callbacks[i].callback # NULL
            THEN Append(acc, [callback |-> s.callbacks[i].callback,
                              user_data |-> s.callbacks[i].user_data,
                              stats |-> stats])
            ELSE acc)

notify_callbacks(m) ==
    IF m.st.callback_count = 0 THEN m
    ELSE [m EXCEPT !.calls = InvokeFrom(m.st, zmk_keystroke_stats_get(m.st), 0, @)]

(***************************************************************************)
(* check_day_rollover                                                      *)
(***************************************************************************)
\* the entry written for the day that ends: .day is (uint8_t)current_uptime_day
DayEntry(s) ==
    [year |-> 0, month |-> 0, day |-> s.current_uptime_day % U8,
     keystrokes |-> s.today_keystrokes]

\* lines 114-129: store e after the last entry while there is room, else shift
\* the entries one place down and store e last
StoreEntry(s, e) ==
    IF s.daily_history_count < DAILY_HISTORY_DAYS
    THEN [s EXCEPT !.daily_history[s.daily_history_count] = e,
                   !.daily_history_count = @ + 1]
    ELSE [s EXCEPT !.daily_history =
            [i \in HistoryIdx |->
                IF i < DAILY_HISTORY_DAYS - 1 THEN s.daily_history[i + 1] ELSE e]]

\* mutant: the entry of the ending day is stored twice
AddToHistory_Twice(s) == StoreEntry(StoreEntry(s, DayEntry(s)), DayEntry(s))

\* lines 112-130: "Add yesterday to history"
AddToHistory(s) == StoreEntry(s, DayEntry(s))

\* mutant: today is zeroed before it is copied to yesterday
RollOverStats_ZeroFirst(s, current_day) ==
    [s EXCEPT !.yesterday_keystrokes = 0,
              !.today_keystrokes = 0,
              !.current_uptime_day = current_day]

\* lines 132-135: "Roll over stats"
RollOverStats(s, current_day) ==
    [s EXCEPT !.yesterday_keystrokes = s.today_keystrokes,
              !.today_keystrokes = 0,
              !.current_uptime_day = current_day]

\* mutant: the rollover notifies and requests no save
check_day_rollover_NoSave(m, t) ==
    LET current_day == get_uptime_day(t)
    IN  IF current_day # m.st.current_uptime_day
        THEN notify_callbacks(
                [m EXCEPT !.st = RollOverStats(AddToHistory(m.st), current_day)])
        ELSE m

\* mutant: the rollover requests a save and leaves the notification to the listener
check_day_rollover_NoNotify(m, t) ==
    LET current_day == get_uptime_day(t)
    IN  IF current_day # m.st.current_uptime_day
        THEN schedule_save(
                [m EXCEPT !.st = RollOverStats(AddToHistory(m.st), current_day)])
        ELSE m

check_day_rollover(m, t) ==
    LET current_day == get_uptime_day(t)
    IN  IF current_day # m.st.current_uptime_day
        THEN notify_callbacks(schedule_save(
                [m EXCEPT !.st = RollOverStats(AddToHistory(m.st), current_day)]))
        ELSE m

(***************************************************************************)
(* update_wpm, check_session_timeout                                       *)
(***************************************************************************)
\* lines 166-173: the samples of the window that count, indices 0..count-1
\* mutant: every sample the ring holds counts, whatever its age
InWindow_AnyAge(w, t) == 0..(w.count - 1)

InWindow(w, t) == {i \in 0..(w.count - 1) : t - w.timestamps[i] <= WPM_WINDOW_MS}

RECURSIVE SumKeystrokes(_, _)
SumKeystrokes(w, S) ==
    IF S = {} THEN 0
    ELSE LET i == CHOOSE x \in S : TRUE
         IN  w.keystrokes[i] + SumKeystrokes(w, S \ {i})

OldestTime(w, S, t) ==
    IF \E i \in S : w.timestamps[i] < t
    THEN CHOOSE x \in {w.timestamps[i] : i \in S} :
            \A i \in S : x <= w.timestamps[i]
    ELSE t

\* Unsigned integers wider than the model checker's, as four 16-bit limbs, the
\* least significant first.
Wide(n) == <<n % U16, n \div U16, 0, 0>>

\* w * c for a factor c below 2^15; the carry out of the top limb is dropped
Times(w, c) ==
    LET p1 == w[1] * c
        p2 == w[2] * c + p1 \div U16
        p3 == w[3] * c + p2 \div U16
        p4 == w[4] * c + p3 \div U16
    IN  <<p1 % U16, p2 % U16, p3 % U16, p4 % U16>>

\* a <= b
AtMost(a, b) ==
    \/ a[4] < b[4]
    \/ a[4] = b[4] /\ a[3] < b[3]
    \/ a[4] = b[4] /\ a[3] = b[3] /\ a[2] < b[2]
    \/ a[4] = b[4] /\ a[3] = b[3] /\ a[2] = b[2] /\ a[1] <= b[1]

\* the value an uint32_t keeps: the low 32 bits
AsU32(w) == <<w[1], w[2], 0, 0>>

\* MIN(n / d, 255) for d > 0: the largest x up to 255 with x * d <= n
Quotient255(n, d) ==
    CHOOSE x \in 0..(U8 - 1) :
       /\ AtMost(Times(d, x), n)
       /\ x < U8 - 1 => ~AtMost(Times(d, x + 1), n)

\* (uint8_t)MIN((k * 60000) / (ms * 5), 255) with uint32_t k and ms: both products
\* are reduced modulo 2^32 before the division.  The limbs are needed only when a
\* product reaches 2^31.
Wpm(k, ms) ==
    IF k < U16 \div 2 /\ ms \div U16 < U16 \div 16
    THEN Min((k * 60000) \div (ms * 5), 255)
    ELSE Quotient255(AsU32(Times(Times(Wide(k), 30000), 2)), AsU32(Times(Wide(ms), 5)))

\* min(255, floor(k * 60000 / (ms * 5))) in exact arithmetic
ExactWpm(k, ms) == Quotient255(Times(Times(Wide(k), 30000), 2), Times(Wide(ms), 5))

update_wpm(s, t) ==
    LET w0 == s.wpm_window
        w1 == [w0 EXCEPT !.timestamps[w0.head] = t,
                         !.keystrokes[w0.head] = 1,
                         !.head = (w0.head + 1) % WPM_SLOTS,
                         !.count = IF w0.count < WPM_SLOTS THEN w0.count + 1 ELSE w0.count]
        S == InWindow(w1, t)
        total == SumKeystrokes(w1, S)
        elapsed_ms == t - OldestTime(w1, S, t)
        measured == elapsed_ms > 0 /\ total > 0
        cur == IF measured THEN Wpm(total, elapsed_ms) ELSE 0
        peak == IF measured /\ cur > s.peak_wpm THEN cur ELSE s.peak_wpm
        session_duration_ms == t - s.session_start_time
        avg == IF s.session_keystrokes > 0 /\ s.session_start_time > 0
                  /\ session_duration_ms > 0
               THEN Wpm(s.session_keystrokes, session_duration_ms)
               ELSE s.average_wpm
    IN  [s EXCEPT !.wpm_window = w1, !.current_wpm = cur, !.peak_wpm = peak,
                  !.average_wpm = avg]

\* mutant: the session restarts at the time of the key and keeps its count
check_session_timeout_KeepCount(s, t) ==
    IF t - s.last_keystroke_time > SESSION_TIMEOUT_MS
    THEN [s EXCEPT !.session_start_time = t,
                   !.average_wpm = 0, !.peak_wpm = 0,
                   !.wpm_window.count = 0, !.wpm_window.head = 0]
    ELSE s

\* mutant: the session restarts and the peak of the last one stays
check_session_timeout_KeepPeak(s, t) ==
    IF t - s.last_keystroke_time > SESSION_TIMEOUT_MS
    THEN [s EXCEPT !.session_keystrokes = 0, !.session_start_time = t,
                   !.average_wpm = 0,
                   !.wpm_window.count = 0, !.wpm_window.head = 0]
    ELSE s

check_session_timeout(s, t) ==
    IF t - s.last_keystroke_time > SESSION_TIMEOUT_MS
    THEN [s EXCEPT !.session_keystrokes = 0, !.session_start_time = t,
                   !.average_wpm = 0, !.peak_wpm = 0,
                   !.wpm_window.count = 0, !.wpm_window.head = 0]
    ELSE s

(***************************************************************************)
(* keystroke_event_listener                                                *)
(***************************************************************************)
\* mutant: a position past the heatmap is counted on the last key
AfterCount_Clamped(s1, position, t) ==
    LET s2 == check_session_timeout(s1, t)
        s3 == [s2 EXCEPT !.session_start_time = IF s2.session_keystrokes = 0 THEN t ELSE @,
                         !.session_keystrokes = @ + 1,
                         !.last_keystroke_time = t]
        p == IF position < MAX_KEY_POSITIONS THEN position ELSE MAX_KEY_POSITIONS - 1
    IN  update_wpm([s3 EXCEPT !.key_counts[p] = @ + 1], t)

\* mutant: the keystroke is counted in total, not in today
CountKeystroke_TotalOnly(s) == [s EXCEPT !.total_keystrokes = @ + 1]

\* lines 292-294: "Update counts"
CountKeystroke(s) ==
    [s EXCEPT !.total_keystrokes = @ + 1, !.today_keystrokes = @ + 1]

\* lines 296-317: session, heatmap and speed, after the counts
AfterCount(s1, position, t) ==
    LET s2 == check_session_timeout(s1, t)
        s3 == [s2 EXCEPT !.session_start_time = IF s2.session_keystrokes = 0 THEN t ELSE @,
                         !.session_keystrokes = @ + 1,
                         !.last_keystroke_time = t]
        s4 == IF position < MAX_KEY_POSITIONS
              THEN [s3 EXCEPT !.key_counts[position] = @ + 1]
              ELSE s3
    IN  update_wpm(s4, t)

\* lines 292-317: the updates before the rollover check
RecordKeystroke(s, position, t) == AfterCount(CountKeystroke(s), position, t)

\* mutant: the day is rolled over before the key is counted
keystroke_event_listener_RollFirst(m, pressed, position, t) ==
    IF ~pressed THEN m
    ELSE LET m0 == check_day_rollover(m, t)
             m1 == [m0 EXCEPT !.st = RecordKeystroke(m0.st, position, t)]
         IN  notify_callbacks(m1)

\* mutant: a release is recorded like a press
keystroke_event_listener_AnyTransition(m, pressed, position, t) ==
    LET m1 == [m EXCEPT !.st = RecordKeystroke(m.st, position, t)]
    IN  notify_callbacks(check_day_rollover(m1, t))

keystroke_event_listener(m, pressed, position, t) ==
    IF ~pressed THEN m
    ELSE LET m1 == [m EXCEPT !.st = RecordKeystroke(m.st, position, t)]
         IN  notify_callbacks(check_day_rollover(m1, t))

(***************************************************************************)
(* zmk_keystroke_stats_reset                                               *)
(***************************************************************************)
\* mutant: the peak speed and the history entries survive the reset
ResetFields_Partial(s, reset_total, t) ==
    [s EXCEPT !.total_keystrokes = IF reset_total THEN 0 ELSE @,
              !.today_keystrokes = 0,
              !.yesterday_keystrokes = 0,
              !.session_keystrokes = 0,
              !.session_start_time = t,
              !.current_wpm = 0, !.average_wpm = 0,
              !.wpm_window.count = 0, !.wpm_window.head = 0,
              !.key_counts = [p \in Positions |-> 0],
              !.daily_history_count = 0]

\* mutant: the total is cleared whatever the argument
ResetFields_ZeroTotal(s, reset_total, t) ==
    [s EXCEPT !.total_keystrokes = 0,
              !.today_keystrokes = 0,
              !.yesterday_keystrokes = 0,
              !.session_keystrokes = 0,
              !.session_start_time = t,
              !.current_wpm = 0, !.average_wpm = 0, !.peak_wpm = 0,
              !.wpm_window.count = 0, !.wpm_window.head = 0,
              !.key_counts = [p \in Positions |-> 0],
              !.daily_history_count = 0,
              !.daily_history = [i \in HistoryIdx |-> ZeroEntry]]

\* lines 448-475: the fields cleared under the mutex
ResetFields(s, reset_total, t) ==
    [s EXCEPT !.total_keystrokes = IF reset_total THEN 0 ELSE @,
              !.today_keystrokes = 0,
              !.yesterday_keystrokes = 0,
              !.session_keystrokes = 0,
              !.session_start_time = t,
              !.current_wpm = 0, !.average_wpm = 0, !.peak_wpm = 0,
              !.wpm_window.count = 0, !.wpm_window.head = 0,
              !.key_counts = [p \in Positions |-> 0],
              !.daily_history_count = 0,
              !.daily_history = [i \in HistoryIdx |-> ZeroEntry]]

zmk_keystroke_stats_reset(m, reset_total, t) ==
    notify_callbacks(schedule_save([m EXCEPT !.st = ResetFields(m.st, reset_total, t)]))

(***************************************************************************)
(* zmk_keystroke_stats_register_callback / _unregister_callback            *)
(* each returns [st, rc]                                                   *)
(***************************************************************************)
\* mutant: the capacity test is off by one
zmk_keystroke_stats_register_callback_OffByOne(s, callback, user_data) ==
    IF callback = NULL THEN [st |-> s, rc |-> 0 - EINVAL]
    ELSE IF s.callback_count > MAX_CALLBACKS THEN [st |-> s, rc |-> 0 - ENOMEM]
    ELSE [st |-> [s EXCEPT !.callbacks =
                                [i \in DOMAIN s.callbacks \cup {s.callback_count} |->
                                    IF i = s.callback_count
                                    THEN [callback |-> callback, user_data |-> user_data]
                                    ELSE s.callbacks[i]],
                           !.callback_count = @ + 1],
          rc |-> 0]

zmk_keystroke_stats_register_callback(s, callback, user_data) ==
    IF callback = NULL THEN [st |-> s, rc |-> 0 - EINVAL]
    ELSE IF s.callback_count >= MAX_CALLBACKS THEN [st |-> s, rc |-> 0 - ENOMEM]
    ELSE [st |-> [s EXCEPT !.callbacks[s.callback_count] =
                                [callback |-> callback, user_data |-> user_data],
                           !.callback_count = @ + 1],
          rc |-> 0]

\* mutant: the latest-registered matching entry is the one removed
zmk_keystroke_stats_unregister_callback_Latest(s, callback) ==
    LET found == {i \in 0..(s.callback_count - 1) : s.callbacks[i].callback = callback}
    IN  IF found = {} THEN [st |-> s, rc |-> 0 - ENOENT]
        ELSE LET i == CHOOSE x \in found : \A y \in found : x >= y
             IN  [st |-> [s EXCEPT !.callbacks =
                                [j \in 0..(MAX_CALLBACKS - 1) |->
                                    IF j >= i /\ j < s.callback_count - 1
                                    THEN s.callbacks[j + 1] ELSE s.callbacks[j]],
                                   !.callback_count = @ - 1],
                   rc |-> 0]

\* lines 512-526: the first match is removed, the entries after it move down
zmk_keystroke_stats_unregister_callback(s, callback) ==
    LET found == {i \in 0..(s.callback_count - 1) : s.callbacks[i].callback = callback}
    IN  IF found = {} THEN [st |-> s, rc |-> 0 - ENOENT]
        ELSE LET i == CHOOSE x \in found : \A y \in found : x <= y
             IN  [st |-> [s EXCEPT !.callbacks =
                                [j \in 0..(MAX_CALLBACKS - 1) |->
                                    IF j >= i /\ j < s.callback_count - 1
                                    THEN s.callbacks[j + 1] ELSE s.callbacks[j]],
                                   !.callback_count = @ - 1],
                   rc |-> 0]

(***************************************************************************)
(* zmk_keystroke_stats_get_persist_data / _load_persist_data               *)
(***************************************************************************)
zmk_keystroke_stats_get_persist_data(s) ==
    [version |-> PERSIST_DATA_VERSION,
     total_keystrokes |-> s.total_keystrokes,
     today_keystrokes |-> s.today_keystrokes,
     yesterday_keystrokes |-> s.yesterday_keystrokes,
     current_uptime_day |-> s.current_uptime_day,
     peak_wpm |-> s.peak_wpm,
     total_typing_time_ms |-> s.total_typing_time_ms,
     key_counts |-> s.key_counts,
     daily_history |-> s.daily_history,
     daily_history_count |-> s.daily_history_count]

\* mutant: yesterday is restored from the today field
RestoreFields_Mixed(s, data) ==
    [s EXCEPT !.total_keystrokes = data.total_keystrokes,
              !.today_keystrokes = data.today_keystrokes,
              !.yesterday_keystrokes = data.today_keystrokes,
              !.current_uptime_day = data.current_uptime_day,
              !.peak_wpm = data.peak_wpm,
              !.total_typing_time_ms = data.total_typing_time_ms,
              !.key_counts = data.key_counts,
              !.daily_history = data.daily_history,
              !.daily_history_count = data.daily_history_count]

\* mutant: the day index derived at boot is kept
RestoreFields_KeepDay(s, data) ==
    [s EXCEPT !.total_keystrokes = data.total_keystrokes,
              !.today_keystrokes = data.today_keystrokes,
              !.yesterday_keystrokes = data.yesterday_keystrokes,
              !.peak_wpm = data.peak_wpm,
              !.total_typing_time_ms = data.total_typing_time_ms,
              !.key_counts = data.key_counts,
              !.daily_history = data.daily_history,
              !.daily_history_count = data.daily_history_count]

\* lines 623-641: the fields restored under the mutex
RestoreFields(s, data) ==
    [s EXCEPT !.total_keystrokes = data.total_keystrokes,
              !.today_keystrokes = data.today_keystrokes,
              !.yesterday_keystrokes = data.yesterday_keystrokes,
              !.current_uptime_day = data.current_uptime_day,
              !.peak_wpm = data.peak_wpm,
              !.total_typing_time_ms = data.total_typing_time_ms,
              !.key_counts = data.key_counts,
              !.daily_history = data.daily_history,
              !.daily_history_count = data.daily_history_count]

\* mutant: the version is not validated
zmk_keystroke_stats_load_persist_data_AnyVersion(m, data) ==
    IF data = NoData THEN [m |-> m, rc |-> 0 - EINVAL]
    ELSE [m |-> notify_callbacks([m EXCEPT !.st = RestoreFields(m.st, data)]), rc |-> 0]

\* returns [m, rc]
zmk_keystroke_stats_load_persist_data(m, data) ==
    IF data = NoData THEN [m |-> m, rc |-> 0 - EINVAL]
    ELSE IF data.version # PERSIST_DATA_VERSION THEN [m |-> m, rc |-> 0 - EINVAL]
    ELSE [m |-> notify_callbacks([m EXCEPT !.st = RestoreFields(m.st, data)]), rc |-> 0]

(***************************************************************************)
(* settings glue (part_003): load handler, save, load                      *)
(***************************************************************************)
\* mutant: the length of the stored value is not compared with the layout
settings_load_handler_AnySize(m, entry) ==
    IF entry.read_rc < 0 THEN [m |-> m, rc |-> entry.read_rc]
    ELSE IF entry.data.version # PERSIST_DATA_VERSION THEN [m |-> m, rc |-> 0]
    ELSE zmk_keystroke_stats_load_persist_data(m, entry.data)

\* a stored entry is [size_ok, read_rc, data]: whether its length is that of the
\* snapshot layout, the result of read_cb, and the bytes read as a snapshot;
\* returns [m, rc]
settings_load_handler(m, entry) ==
    IF ~entry.size_ok THEN [m |-> m, rc |-> 0 - EINVAL]
    ELSE IF entry.read_rc < 0 THEN [m |-> m, rc |-> entry.read_rc]
    ELSE IF entry.data.version # PERSIST_DATA_VERSION THEN [m |-> m, rc |-> 0]
    ELSE zmk_keystroke_stats_load_persist_data(m, entry.data)

\* settings_load_subtree calls the handler for the stored entry, if there is one
keystroke_stats_load_from_settings(m, stored) ==
    IF stored = NoData THEN m ELSE settings_load_handler(m, stored).m

\* settings_save_one(SETTINGS_KEY "/data", NULL, 0) with the storage's result rc:
\* the value handed over has length 0, which a settings backend keeps as "no entry".
\* Returns [stored, rc].
keystroke_stats_save_to_settings(stored, rc) ==
    IF rc < 0 THEN [stored |-> stored, rc |-> rc]
    ELSE [stored |-> NoData, rc |-> 0]

\* mutant: the flag is cleared whatever the storage reports
save_work_handler_AlwaysClear(s, stored, rc) ==
    LET r == keystroke_stats_save_to_settings(stored, rc)
    IN  [st |-> [s EXCEPT !.save_pending = FALSE], stored |-> r.stored]

\* save_work_handler; returns [st, stored]
save_work_handler(s, stored, rc) ==
    LET r == keystroke_stats_save_to_settings(stored, rc)
    IN  [st |-> IF r.rc = 0 THEN [s EXCEPT !.save_pending = FALSE] ELSE s,
         stored |-> r.stored]

\* keystroke_stats_init; returns the machine after initialisation
\* lines 538-542: the cleared state with its day index and the idle save work
Cleared(t) ==
    [st |-> [ZeroState EXCEPT !.current_uptime_day = get_uptime_day(t)],
     work |-> "idle", due |-> 0, t |-> t, asked |-> FALSE, calls |-> <<>>]

keystroke_stats_init(stored, t) ==
    LET m1 == keystroke_stats_load_from_settings(Cleared(t), stored)
    IN  [m1 EXCEPT !.st.initialized = TRUE]

(***************************************************************************)
(* The state machine                                                       *)
(***************************************************************************)
Init ==
    /\ state = ZeroState
    /\ now = 0
    /\ save_work = "idle"
    /\ save_due = 0
    /\ timer_started = FALSE
    /\ timer_due = 0
    /\ settings_data = NoData
    /\ persist_buf = NoData
    /\ snap = NoData
    /\ count_out = 0
    /\ lock_count = 0
    /\ raised = <<>>
    /\ typed = <<>>
    /\ op = [name |-> "none", arg |-> NULL]
    /\ ret = 0
    /\ calls = <<>>
    /\ mutex = NULL
    /\ pc = [th \in Threads |-> "idle"]
    /\ local = [th \in Threads |-> NoData]
    /\ events = 0
    /\ undisturbed = FALSE
    /\ hist = NoHistory

\* the latest WPM_SLOTS elements of q
Recent(q) == IF Len(q) > WPM_SLOTS THEN SubSeq(q, Len(q) - WPM_SLOTS + 1, Len(q)) ELSE q

\* the machine an operation starts from: the kernel clock reads now; the operation
\* has invoked no observer and armed no save yet
M == [st |-> state, work |-> save_work, due |-> save_due, t |-> now, asked |-> FALSE,
      calls |-> <<>>]

\* the history after an operation that ended as machine m
Requested(m) ==
    IF m.asked
    THEN [hist EXCEPT !.last_request = now]
    ELSE hist

Apply(m) ==
    /\ state' = m.st
    /\ save_work' = m.work
    /\ save_due' = m.due
    /\ calls' = m.calls
    /\ hist' = Requested(m)

LongStep == HOURS_PER_DAY * MS_PER_HOUR
ShortStep == 100
HalfDelay == SAVE_DEBOUNCE_MS \div 2

\* the steps of the clock the specifications take: small ones are counted from
\* the last day boundary, long ones (a day, or the time left to the next timer
\* expiry) up to MaxDays days
Within(d) ==
    IF d = ShortStep THEN (now % LongStep) \div ShortStep < MaxShortSteps
    ELSE IF d = HalfDelay THEN (now % LongStep) \div HalfDelay < MaxHalfDelays
    ELSE (now + d) \div LongStep <= MaxDays

\* the uptime clock advances by d > 0; the module is initialised at boot, before
\* it does
Tick(d) ==
    /\ state.initialized
    /\ d > 0
    /\ now' = now + d
    /\ op' = [name |-> "tick", arg |-> NULL]
    /\ UNCHANGED <<count_out, raised, typed, lock_count>>
    /\ ret' = 0
    /\ calls' = <<>>
    /\ UNCHANGED <<state, save_work, save_due, timer_started, timer_due, settings_data,
                   persist_buf, snap, events, undisturbed, hist>>
    /\ UNCHANGED <<mutex, pc, local>>

\* no delay ends unserved during a step of d: the work queue runs save_work when
\* its delay expires, and the timer calls its handler when it expires
Timely(d) ==
    /\ save_work = "scheduled" => now + d <= save_due
    /\ timer_started => now + d <= timer_due

\* SYS_INIT(keystroke_stats_init, APPLICATION, 50): once per boot.  The step is
\* recorded with what the load handler returned to the settings subsystem, NULL
\* when nothing is stored and the handler is not called.
ModuleInit ==
    /\ ~state.initialized
    /\ LET m == keystroke_stats_init(settings_data, now)
       IN  /\ Apply(m)
           /\ undisturbed' = (m.st = [ZeroState EXCEPT
                                        !.current_uptime_day = get_uptime_day(now),
                                        !.initialized = TRUE])
    /\ timer_started' = TRUE
    /\ timer_due' = now + SAVE_INTERVAL_MS
    /\ events' = 0
    /\ op' = [name |-> "init",
              arg |-> IF settings_data = NoData THEN NULL
                      ELSE settings_load_handler(Cleared(now), settings_data).rc]
    /\ typed' = <<>>
    /\ UNCHANGED <<count_out, raised, lock_count>>
    /\ ret' = 0
    /\ UNCHANGED <<now, settings_data, persist_buf, snap>>
    /\ UNCHANGED <<mutex, pc, local>>

\* the event manager delivers a zmk_keycode_state_changed event
KeystrokeEvent(pressed, position) ==
    /\ Apply(keystroke_event_listener(M, pressed, position, now))
    /\ LET rolled == pressed /\ get_uptime_day(now) # state.current_uptime_day
       IN  undisturbed' = (undisturbed /\ ~rolled)
    /\ events' = IF pressed THEN events + 1 ELSE events
    /\ op' = [name |-> "keystroke", arg |-> pressed, position |-> position]
    /\ typed' = IF pressed THEN Recent(Append(typed, now)) ELSE typed
    /\ UNCHANGED <<count_out, raised, lock_count>>
    /\ ret' = 0
    /\ UNCHANGED <<now, timer_started, timer_due, settings_data, persist_buf, snap>>
    /\ UNCHANGED <<mutex, pc, local>>

Reset(reset_total) ==
    /\ Apply(zmk_keystroke_stats_reset(M, reset_total, now))
    /\ undisturbed' = FALSE
    /\ op' = [name |-> "reset", arg |-> reset_total]
    /\ typed' = <<>>
    /\ UNCHANGED <<count_out, raised, lock_count>>
    /\ ret' = 0
    /\ UNCHANGED <<now, timer_started, timer_due, settings_data, persist_buf, snap,
                   events>>
    /\ UNCHANGED <<mutex, pc, local>>

\* zmk_keystroke_stats_save
Save ==
    /\ LET r == zmk_keystroke_stats_save(M)
       IN  /\ Apply(r.m)
           /\ ret' = r.rc
    /\ op' = [name |-> "save", arg |-> NULL]
    /\ UNCHANGED <<count_out, raised, typed, lock_count>>
    /\ UNCHANGED <<now, timer_started, timer_due, settings_data, persist_buf, snap,
                   events, undisturbed>>
    /\ UNCHANGED <<mutex, pc, local>>

\* periodic_save_timer expires, and is due again one interval later
PeriodicSaveHandler ==
    /\ timer_started
    /\ now >= timer_due
    /\ LET m == periodic_save_handler(M)
       IN  /\ state' = m.st
           /\ save_work' = m.work
           /\ save_due' = m.due
           /\ calls' = m.calls
           /\ hist' = [Requested(m) EXCEPT !.expired_at = IF @ = NoTime THEN now ELSE @]
    /\ timer_due' = timer_due + SAVE_INTERVAL_MS
    /\ op' = [name |-> "periodic", arg |-> NULL]
    /\ UNCHANGED <<count_out, raised, typed, lock_count>>
    /\ ret' = 0
    /\ UNCHANGED <<now, timer_started, settings_data, persist_buf, snap,
                   events, undisturbed>>
    /\ UNCHANGED <<mutex, pc, local>>

\* the debounce delay of save_work expires; rc is the storage's result
SaveWorkHandler(rc) ==
    /\ save_work = "scheduled"
    /\ now >= save_due
    /\ LET r == save_work_handler(state, settings_data, rc)
       IN  /\ state' = r.st
           /\ settings_data' = r.stored
    /\ save_work' = "idle"
    /\ calls' = <<>>
    /\ hist' = [hist EXCEPT !.expired_at = NoTime, !.last_attempt = now]
    /\ op' = [name |-> "save_work", arg |-> rc]
    /\ UNCHANGED <<count_out, raised, typed, lock_count>>
    /\ ret' = 0
    /\ UNCHANGED <<now, save_due, timer_started, timer_due, persist_buf, snap,
                   events, undisturbed>>
    /\ UNCHANGED <<mutex, pc, local>>

RegisterCallback(callback, user_data) ==
    /\ LET r == zmk_keystroke_stats_register_callback(state, callback, user_data)
       IN  /\ state' = r.st
           /\ ret' = r.rc
    /\ calls' = <<>>
    /\ op' = [name |-> "register", arg |-> <<callback, user_data>>]
    /\ UNCHANGED <<count_out, raised, typed, lock_count>>
    /\ UNCHANGED <<now, save_work, save_due, timer_started, timer_due, settings_data,
                   persist_buf, snap, events, undisturbed, hist>>
    /\ UNCHANGED <<mutex, pc, local>>

UnregisterCallback(callback) ==
    /\ LET r == zmk_keystroke_stats_unregister_callback(state, callback)
       IN  /\ state' = r.st
           /\ ret' = r.rc
    /\ calls' = <<>>
    /\ op' = [name |-> "unregister", arg |-> callback]
    /\ UNCHANGED <<count_out, raised, typed, lock_count>>
    /\ UNCHANGED <<now, save_work, save_due, timer_started, timer_due, settings_data,
                   persist_buf, snap, events, undisturbed, hist>>
    /\ UNCHANGED <<mutex, pc, local>>

\* zmk_keystroke_stats_get_persist_data(&persist_buf)
GetPersistData ==
    /\ persist_buf' = zmk_keystroke_stats_get_persist_data(state)
    /\ calls' = <<>>
    /\ op' = [name |-> "get_persist", arg |-> NULL]
    /\ UNCHANGED <<count_out, raised, typed, lock_count>>
    /\ ret' = 0
    /\ UNCHANGED <<state, now, save_work, save_due, timer_started, timer_due,
                   settings_data, snap, events, undisturbed, hist>>
    /\ UNCHANGED <<mutex, pc, local>>

\* zmk_keystroke_stats_load_persist_data(data)
LoadPersistData(data) ==
    /\ LET r == zmk_keystroke_stats_load_persist_data(M, data)
       IN  /\ Apply(r.m)
           /\ ret' = r.rc
           /\ undisturbed' = (undisturbed /\ r.rc # 0)
    /\ op' = [name |-> "load_persist", arg |-> data]
    /\ UNCHANGED <<count_out, raised, typed, lock_count>>
    /\ UNCHANGED <<now, timer_started, timer_due, settings_data, persist_buf, snap,
                   events>>
    /\ UNCHANGED <<mutex, pc, local>>

\* zmk_keystroke_stats_get(&snap)
Get ==
    /\ snap' = zmk_keystroke_stats_get(state)
    /\ calls' = <<>>
    /\ op' = [name |-> "get", arg |-> NULL]
    /\ UNCHANGED <<count_out, raised, typed, lock_count>>
    /\ ret' = 0
    /\ UNCHANGED <<state, now, save_work, save_due, timer_started, timer_due,
                   settings_data, persist_buf, events, undisturbed, hist>>
    /\ UNCHANGED <<mutex, pc, local>>

\* zmk_keystroke_stats_get_key_count(position, &count_out), or with a NULL pointer
\* when has_out is false, in a build with or without the heatmap
GetKeyCount(heatmap, position, has_out) ==
    /\ LET r == zmk_keystroke_stats_get_key_count(heatmap, state, position,
                                                  IF has_out THEN <<count_out>> ELSE <<>>)
       IN  /\ ret' = r.rc
           /\ count_out' = IF has_out THEN r.count[1] ELSE count_out
    /\ calls' = <<>>
    /\ op' = [name |-> "get_key_count",
              arg |-> [heatmap |-> heatmap, position |-> position, has_out |-> has_out]]
    /\ UNCHANGED <<raised, typed, lock_count>>
    /\ UNCHANGED <<state, now, save_work, save_due, timer_started, timer_due,
                   settings_data, persist_buf, snap, events, undisturbed, hist>>
    /\ UNCHANGED <<mutex, pc, local>>

(***************************************************************************)
(* The same operations as the threads execute them: one step per mutex     *)
(* call and per block of statements between two mutex calls                *)
(***************************************************************************)
\* mutant: the lock is granted while another thread holds the mutex
k_mutex_lock_Shared(mx, th) == TRUE

\* mutant: the thread that holds the mutex waits for it like any other
k_mutex_lock_NonRecursive(mx, th) == mx = NULL

\* k_mutex_lock(&stats_mutex, K_FOREVER) returns once the mutex is free, or at
\* once to the thread that holds it
k_mutex_lock(mx, th) == mx \in {NULL, th}

\* lines 357-361 of zmk_keystroke_stats_get: the counters, copied first
CounterFields ==
    {"total_keystrokes", "today_keystrokes", "yesterday_keystrokes",
     "last_keystroke_time", "current_uptime_day"}

GetFirstPart(s) == [f \in CounterFields |-> zmk_keystroke_stats_get(s)[f]]

\* lines 363-411: the remaining fields, copied into the same buffer
GetSecondPart(buf, s) ==
    [f \in DOMAIN zmk_keystroke_stats_get(s) |->
        IF f \in CounterFields THEN buf[f] ELSE zmk_keystroke_stats_get(s)[f]]

Goto(th, label) == pc' = [pc EXCEPT ![th] = label]

\* k_mutex_unlock(&stats_mutex) by the owner: one lock fewer, and the mutex is
\* free once the owner has unlocked it as often as it locked it
k_mutex_unlock(mx, n, th) ==
    /\ lock_count' = n - 1
    /\ mutex' = IF n = 1 THEN NULL ELSE mx

\* the thread th calls the operation and takes the mutex
Lock(th, name, label, arg) ==
    /\ state.initialized
    /\ pc[th] = "idle"
    /\ k_mutex_lock(mutex, th)
    /\ mutex' = th
    /\ lock_count' = lock_count + 1
    /\ Goto(th, label)
    /\ local' = [local EXCEPT ![th] = arg]
    /\ op' = [name |-> name, arg |-> th]
    /\ UNCHANGED <<count_out, raised, typed>>
    /\ calls' = <<>>
    /\ UNCHANGED <<state, now, save_work, save_due, timer_started, timer_due,
                   settings_data, persist_buf, snap, ret, events, undisturbed, hist>>

\* k_mutex_unlock(&stats_mutex)
Unlock(th, name, label, next) ==
    /\ pc[th] = label
    /\ k_mutex_unlock(mutex, lock_count, th)
    /\ Goto(th, next)
    /\ op' = [name |-> name, arg |-> th]
    /\ UNCHANGED <<count_out, raised, typed>>
    /\ calls' = <<>>
    /\ UNCHANGED <<state, now, save_work, save_due, timer_started, timer_due,
                   settings_data, persist_buf, snap, local, ret, events, undisturbed,
                   hist>>

\* zmk_keystroke_stats_get, lines 353-413
GetLock(th) == Lock(th, "get_lock", "get_counters", NoData)

GetCounters(th) ==
    /\ pc[th] = "get_counters"
    /\ local' = [local EXCEPT ![th] = GetFirstPart(state)]
    /\ Goto(th, "get_rest")
    /\ op' = [name |-> "get_counters", arg |-> th]
    /\ UNCHANGED <<count_out, raised, typed, lock_count>>
    /\ calls' = <<>>
    /\ UNCHANGED <<state, now, save_work, save_due, timer_started, timer_due,
                   settings_data, persist_buf, snap, mutex, ret, events, undisturbed,
                   hist>>

GetRest(th) ==
    /\ pc[th] = "get_rest"
    /\ local' = [local EXCEPT ![th] = GetSecondPart(local[th], state)]
    /\ Goto(th, "get_unlock")
    /\ op' = [name |-> "get_rest", arg |-> th]
    /\ UNCHANGED <<count_out, raised, typed, lock_count>>
    /\ calls' = <<>>
    /\ UNCHANGED <<state, now, save_work, save_due, timer_started, timer_due,
                   settings_data, persist_buf, snap, mutex, ret, events, undisturbed,
                   hist>>

GetReturn(th) ==
    /\ pc[th] = "get_unlock"
    /\ k_mutex_unlock(mutex, lock_count, th)
    /\ snap' = local[th]
    /\ local' = [local EXCEPT ![th] = NoData]
    /\ Goto(th, "idle")
    /\ op' = [name |-> "get_return", arg |-> th]
    /\ UNCHANGED <<count_out, raised, typed>>
    /\ ret' = 0
    /\ calls' = <<>>
    /\ UNCHANGED <<state, now, save_work, save_due, timer_started, timer_due,
                   settings_data, persist_buf, events, undisturbed, hist>>

\* keystroke_event_listener for a pressed key, lines 290-328
PressLock(th) == Lock(th, "press_lock", "press_count", NoData)

PressCount(th) ==
    /\ pc[th] = "press_count"
    /\ state' = CountKeystroke(state)
    /\ events' = events + 1
    /\ Goto(th, "press_rest")
    /\ op' = [name |-> "press_count", arg |-> th]
    /\ UNCHANGED <<count_out, raised, typed, lock_count>>
    /\ calls' = <<>>
    /\ UNCHANGED <<now, save_work, save_due, timer_started, timer_due, settings_data,
                   persist_buf, snap, mutex, local, ret, undisturbed, hist>>

PressRest(th, position) ==
    /\ pc[th] = "press_rest"
    /\ Apply(notify_callbacks(check_day_rollover(
                [M EXCEPT !.st = AfterCount(state, position, now)], now)))
    /\ undisturbed' = (undisturbed /\ get_uptime_day(now) = state.current_uptime_day)
    /\ Goto(th, "press_unlock")
    /\ op' = [name |-> "press_rest", arg |-> th]
    /\ typed' = Recent(Append(typed, now))
    /\ UNCHANGED <<count_out, raised, lock_count>>
    /\ UNCHANGED <<now, timer_started, timer_due, settings_data, persist_buf, snap,
                   mutex, local, ret, events>>

PressReturn(th) == Unlock(th, "press_return", "press_unlock", "idle")

\* zmk_keystroke_stats_reset, lines 443-483
ResetLock(th, reset_total) == Lock(th, "reset_lock", "reset_fields", reset_total)

ResetBody(th) ==
    /\ pc[th] = "reset_fields"
    /\ state' = ResetFields(state, local[th], now)
    /\ undisturbed' = FALSE
    /\ Goto(th, "reset_unlock")
    /\ op' = [name |-> "reset_fields", arg |-> th]
    /\ typed' = <<>>
    /\ UNCHANGED <<count_out, raised, lock_count>>
    /\ calls' = <<>>
    /\ UNCHANGED <<now, save_work, save_due, timer_started, timer_due, settings_data,
                   persist_buf, snap, mutex, local, ret, events, hist>>

ResetUnlock(th) == Unlock(th, "reset_unlock", "reset_unlock", "reset_save")

\* line 479: schedule_save(), after the unlock of line 477
ResetSave(th) ==
    /\ pc[th] = "reset_save"
    /\ Apply(schedule_save(M))
    /\ Goto(th, "reset_notify")
    /\ op' = [name |-> "reset_save", arg |-> th]
    /\ UNCHANGED <<count_out, raised, typed, lock_count>>
    /\ UNCHANGED <<now, timer_started, timer_due, settings_data, persist_buf, snap,
                   mutex, local, ret, events, undisturbed>>

\* line 480: notify_callbacks(), which takes the mutex only inside its call of
\* zmk_keystroke_stats_get
ResetNotify(th) ==
    /\ pc[th] = "reset_notify"
    /\ state.callback_count = 0 \/ k_mutex_lock(mutex, th)
    /\ Apply(notify_callbacks(M))
    /\ Goto(th, "idle")
    /\ op' = [name |-> "reset_return", arg |-> th]
    /\ UNCHANGED <<count_out, raised, typed, lock_count>>
    /\ ret' = 0
    /\ UNCHANGED <<now, timer_started, timer_due, settings_data, persist_buf, snap,
                   mutex, local, events, undisturbed>>

\* zmk_keystroke_stats_load_persist_data of an export of this build, lines 621-651:
\* the unlock is at line 643
LoadLock(th) ==
    /\ persist_buf # NoData
    /\ persist_buf.version = PERSIST_DATA_VERSION
    /\ Lock(th, "load_lock", "load_fields", persist_buf)

LoadBody(th) ==
    /\ pc[th] = "load_fields"
    /\ state' = RestoreFields(state, local[th])
    /\ undisturbed' = FALSE
    /\ Goto(th, "load_unlock")
    /\ op' = [name |-> "load_fields", arg |-> th]
    /\ UNCHANGED <<count_out, raised, typed, lock_count>>
    /\ calls' = <<>>
    /\ UNCHANGED <<now, save_work, save_due, timer_started, timer_due, settings_data,
                   persist_buf, snap, mutex, local, ret, events, hist>>

LoadUnlock(th) == Unlock(th, "load_unlock", "load_unlock", "load_notify")

\* line 649: notify_callbacks(), after the unlock
LoadNotify(th) ==
    /\ pc[th] = "load_notify"
    /\ state.callback_count = 0 \/ k_mutex_lock(mutex, th)
    /\ Apply(notify_callbacks(M))
    /\ Goto(th, "idle")
    /\ local' = [local EXCEPT ![th] = NoData]
    /\ op' = [name |-> "load_return", arg |-> th]
    /\ UNCHANGED <<count_out, raised, typed, lock_count>>
    /\ ret' = 0
    /\ UNCHANGED <<now, timer_started, timer_due, settings_data, persist_buf, snap,
                   mutex, events, undisturbed>>

\* zmk_keystroke_stats_register_callback, lines 490-506
RegisterLock(th, callback, user_data) ==
    /\ state.callback_count < MaxObservers
    /\ Lock(th, "register_lock", "register_body",
            [callback |-> callback, user_data |-> user_data])

RegisterBody(th) ==
    /\ pc[th] = "register_body"
    /\ LET r == zmk_keystroke_stats_register_callback(
                    state, local[th].callback, local[th].user_data)
       IN  /\ state' = r.st
           /\ ret' = r.rc
    /\ Goto(th, "register_unlock")
    /\ op' = [name |-> "register_body", arg |-> th]
    /\ UNCHANGED <<count_out, raised, typed, lock_count>>
    /\ calls' = <<>>
    /\ UNCHANGED <<now, save_work, save_due, timer_started, timer_due, settings_data,
                   persist_buf, snap, mutex, local, events, undisturbed, hist>>

RegisterReturn(th) == Unlock(th, "register_return", "register_unlock", "idle")

\* zmk_keystroke_stats_save called by thread th, lines 438-441: no mutex call
ForceSave(th) ==
    /\ pc[th] = "idle"
    /\ LET r == zmk_keystroke_stats_save(M)
       IN  /\ Apply(r.m)
           /\ ret' = r.rc
    /\ op' = [name |-> "save", arg |-> th]
    /\ UNCHANGED <<count_out, raised, typed, lock_count>>
    /\ UNCHANGED <<now, timer_started, timer_due, settings_data, persist_buf, snap,
                   mutex, pc, local, events, undisturbed>>

(***************************************************************************)
(* The notification pass and the listener, statement by statement          *)
(***************************************************************************)
\* the program labels of one call of notify_callbacks: where it starts, where it
\* holds the mutex inside zmk_keystroke_stats_get, where it tests the loop
\* condition, where it calls a handler, and where its caller goes on
PressPasses ==
    {[enter |-> "roll_notify", snapshot |-> "roll_snapshot", loop |-> "roll_loop",
      call |-> "roll_call", done |-> "press_notify"],
     [enter |-> "press_notify", snapshot |-> "press_snapshot", loop |-> "press_loop",
      call |-> "press_call", done |-> "press_unlock"]}

AppPasses ==
    {[enter |-> "reset_notify", snapshot |-> "reset_snapshot", loop |-> "reset_loop",
      call |-> "reset_call", done |-> "idle"],
     [enter |-> "load_notify", snapshot |-> "load_snapshot", loop |-> "load_loop",
      call |-> "load_call", done |-> "idle"]}

\* lines 306-320 of the listener: the updates after the counters, then
\* check_day_rollover up to its schedule_save (line 138); its notify_callbacks
\* (line 139) and the listener's (line 323) are the passes that follow
PressRecord(th, position) ==
    /\ pc[th] = "press_rest"
    /\ LET current_day == get_uptime_day(now)
           rolled == current_day # state.current_uptime_day
           m1 == [M EXCEPT !.st = AfterCount(state, position, now)]
       IN  /\ Apply(IF rolled
                    THEN schedule_save([m1 EXCEPT !.st =
                            RollOverStats(AddToHistory(m1.st), current_day)])
                    ELSE m1)
           /\ undisturbed' = (undisturbed /\ ~rolled)
           /\ Goto(th, IF rolled THEN "roll_notify" ELSE "press_notify")
    /\ op' = [name |-> "press_record", arg |-> th]
    /\ typed' = Recent(Append(typed, now))
    /\ UNCHANGED <<count_out, raised, lock_count>>
    /\ UNCHANGED <<now, timer_started, timer_due, settings_data, persist_buf, snap,
                   mutex, local, ret, events>>

\* lines 229-234: without observers the pass is over; with observers it calls
\* zmk_keystroke_stats_get, which locks stats_mutex (line 353)
NotifyEnter(th, p) ==
    /\ pc[th] = p.enter
    /\ IF state.callback_count = 0
       THEN /\ Goto(th, p.done)
            /\ UNCHANGED <<mutex, lock_count>>
       ELSE /\ k_mutex_lock(mutex, th)
            /\ mutex' = th
            /\ lock_count' = lock_count + 1
            /\ Goto(th, p.snapshot)
    /\ op' = [name |-> "notify_enter", arg |-> th]
    /\ UNCHANGED <<count_out, raised, typed>>
    /\ calls' = <<>>
    /\ UNCHANGED <<state, now, save_work, save_due, timer_started, timer_due,
                   settings_data, persist_buf, snap, local, ret, events, undisturbed,
                   hist>>

\* lines 355-413: the snapshot is filled and the mutex unlocked; the loop of
\* line 235 starts at i = 0.  done is history: the handlers this pass has called.
NotifySnapshot(th, p) ==
    /\ pc[th] = p.snapshot
    /\ local' = [local EXCEPT ![th] =
                    [stats |-> zmk_keystroke_stats_get(state), i |-> 0, done |-> <<>>]]
    /\ k_mutex_unlock(mutex, lock_count, th)
    /\ Goto(th, p.loop)
    /\ op' = [name |-> "notify_snapshot", arg |-> th]
    /\ UNCHANGED <<count_out, raised, typed>>
    /\ calls' = <<>>
    /\ UNCHANGED <<state, now, save_work, save_due, timer_started, timer_due,
                   settings_data, persist_buf, snap, ret, events, undisturbed, hist>>

\* lines 235-236: i < state.callback_count and state.callbacks[i].callback are
\* read from the registry as it is now; the entry to call is fetched
NotifyTest(th, p) ==
    /\ pc[th] = p.loop
    /\ LET i == local[th].i
           pass == [stats |-> local[th].stats, i |-> i, done |-> local[th].done]
       IN  IF i >= state.callback_count
           THEN /\ Goto(th, p.done)
                /\ local' = [local EXCEPT ![th] = NoData]
           ELSE IF state.callbacks[i].callback = NULL
           THEN /\ Goto(th, p.loop)
                /\ local' = [local EXCEPT ![th] = [pass EXCEPT !.i = i + 1]]
           ELSE /\ Goto(th, p.call)
                /\ local' = [local EXCEPT ![th] =
                                [stats |-> pass.stats, i |-> i, done |-> pass.done,
                                 callback |-> state.callbacks[i].callback,
                                 user_data |-> state.callbacks[i].user_data]]
    /\ op' = [name |-> "notify_test", arg |-> th]
    /\ UNCHANGED <<count_out, raised, typed, lock_count>>
    /\ calls' = <<>>
    /\ UNCHANGED <<state, now, save_work, save_due, timer_started, timer_due,
                   settings_data, persist_buf, snap, mutex, ret, events, undisturbed,
                   hist>>

\* line 237: the fetched handler runs with the snapshot and its context; i++
NotifyCall(th, p) ==
    /\ pc[th] = p.call
    /\ calls' = <<[callback |-> local[th].callback, user_data |-> local[th].user_data,
                   stats |-> local[th].stats]>>
    /\ local' = [local EXCEPT ![th] =
                    [stats |-> local[th].stats, i |-> local[th].i + 1,
                     done |-> Append(local[th].done, local[th].callback)]]
    /\ Goto(th, p.loop)
    /\ op' = [name |-> "notify_call", arg |-> th]
    /\ UNCHANGED <<count_out, raised, typed, lock_count>>
    /\ UNCHANGED <<state, now, save_work, save_due, timer_started, timer_due,
                   settings_data, persist_buf, snap, mutex, ret, events, undisturbed,
                   hist>>

\* zmk_keystroke_stats_register_callback with a handler, whatever the table holds:
\* lines 490-506, -ENOMEM with the table full
RegisterAny(th, callback, user_data) ==
    /\ callback # NULL
    /\ Lock(th, "register_lock", "register_body",
            [callback |-> callback, user_data |-> user_data])

\* zmk_keystroke_stats_unregister_callback, lines 509-527
UnregisterLock(th, callback) ==
    Lock(th, "unregister_lock", "unregister_body", [callback |-> callback])

UnregisterBody(th) ==
    /\ pc[th] = "unregister_body"
    /\ LET r == zmk_keystroke_stats_unregister_callback(state, local[th].callback)
       IN  /\ state' = r.st
           /\ ret' = r.rc
    /\ Goto(th, "unregister_unlock")
    /\ op' = [name |-> "unregister_body", arg |-> th]
    /\ UNCHANGED <<count_out, raised, typed, lock_count>>
    /\ calls' = <<>>
    /\ UNCHANGED <<now, save_work, save_due, timer_started, timer_due, settings_data,
                   persist_buf, snap, mutex, local, events, undisturbed, hist>>

UnregisterReturn(th) == Unlock(th, "unregister_return", "unregister_unlock", "idle")

\* the argument checks that return -EINVAL before any lock: a NULL output or
\* handler (lines 350, 421, 488, 575), a key position out of range (line 425) and
\* an import of NULL or of another version (lines 611-618)
RejectedCall(th) ==
    /\ pc[th] = "idle"
    /\ ret' = 0 - EINVAL
    /\ op' = [name |-> "rejected", arg |-> th]
    /\ UNCHANGED <<count_out, raised, typed, lock_count>>
    /\ calls' = <<>>
    /\ UNCHANGED <<state, now, save_work, save_due, timer_started, timer_due,
                   settings_data, persist_buf, snap, mutex, pc, local, events,
                   undisturbed, hist>>

(***************************************************************************)
(* save_work_handler on the system work queue, statement by statement      *)
(***************************************************************************)
\* the delay of save_work has expired: the work queue takes the item, which is
\* no longer scheduled, and calls save_work_handler (line 246)
SaveWorkBegin ==
    /\ save_work = "scheduled"
    /\ now >= save_due
    /\ pc["sysworkq"] = "idle"
    /\ save_work' = "idle"
    /\ Goto("sysworkq", "save_write")
    /\ hist' = [hist EXCEPT !.expired_at = NoTime, !.last_attempt = now]
    /\ op' = [name |-> "save_begin", arg |-> NULL]
    /\ UNCHANGED <<count_out, raised, typed, lock_count>>
    /\ ret' = 0
    /\ calls' = <<>>
    /\ UNCHANGED <<state, now, save_due, timer_started, timer_due, settings_data,
                   persist_buf, snap, mutex, local, events, undisturbed>>

\* line 250: int ret = keystroke_stats_save_to_settings(); rc is the storage's result
SaveWorkWrite(rc) ==
    /\ pc["sysworkq"] = "save_write"
    /\ LET r == keystroke_stats_save_to_settings(settings_data, rc)
       IN  /\ settings_data' = r.stored
           /\ local' = [local EXCEPT !["sysworkq"] = [ret |-> r.rc]]
    /\ Goto("sysworkq", "save_flag")
    /\ op' = [name |-> "save_write", arg |-> rc]
    /\ UNCHANGED <<count_out, raised, typed, lock_count>>
    /\ ret' = 0
    /\ calls' = <<>>
    /\ UNCHANGED <<state, now, save_work, save_due, timer_started, timer_due,
                   persist_buf, snap, mutex, events, undisturbed, hist>>

\* lines 251-256: if (ret == 0) state.save_pending = false
SaveWorkEnd ==
    /\ pc["sysworkq"] = "save_flag"
    /\ state' = IF local["sysworkq"].ret = 0
                THEN [state EXCEPT !.save_pending = FALSE]
                ELSE state
    /\ local' = [local EXCEPT !["sysworkq"] = NoData]
    /\ Goto("sysworkq", "idle")
    /\ op' = [name |-> "save_end", arg |-> local["sysworkq"].ret]
    /\ UNCHANGED <<count_out, raised, typed, lock_count>>
    /\ ret' = 0
    /\ calls' = <<>>
    /\ UNCHANGED <<now, save_work, save_due, timer_started, timer_due, settings_data,
                   persist_buf, snap, mutex, events, undisturbed, hist>>

(***************************************************************************)
(* Specifications                                                          *)
(***************************************************************************)
\* The engine: boot, clock, key events, reset and one observer.  Saves are
\* requested here; the save work item itself runs in SpecSave.
Next ==
    \/ ModuleInit
    \/ \E d \in {LongStep, ShortStep} : Within(d) /\ Tick(d)
    \/ events < MaxKeys /\
          \E p \in {MAX_KEY_POSITIONS - 1, MAX_KEY_POSITIONS} : KeystrokeEvent(TRUE, p)
    \/ KeystrokeEvent(FALSE, 0)
    \/ \E b \in BOOLEAN : Reset(b)
    \/ state.callback_count < MaxObservers /\ RegisterCallback("h1", "u1")

Spec == Init /\ [][Next]_vars

\* Save scheduling: the requests (rollover, reset, forced, periodic) and the
\* delayed work item.
NextSave ==
    \/ ModuleInit
    \/ Within(LongStep) /\ Tick(LongStep)
    \/ events < MaxKeys /\ KeystrokeEvent(TRUE, 0)
    \/ \E b \in BOOLEAN : Reset(b)
    \/ Save
    \/ PeriodicSaveHandler
    \/ \E rc \in {0, 0 - ENOENT} : SaveWorkHandler(rc)

SpecSave == Init /\ [][NextSave]_vars

\* The save path with its delays: time advances in steps of half a debounce
\* delay or up to the next timer expiry, and never past a delay that ends.
NextDebounce ==
    \/ ModuleInit
    \/ Timely(HalfDelay) /\ Within(HalfDelay) /\ Tick(HalfDelay)
    \/ timer_started /\ Timely(timer_due - now) /\ Within(timer_due - now)
          /\ Tick(timer_due - now)
    \/ events < MaxKeysSmall /\ KeystrokeEvent(TRUE, 0)
    \/ Reset(FALSE)
    \/ Save
    \/ PeriodicSaveHandler
    \/ \E rc \in {0, 0 - ENOENT} : SaveWorkHandler(rc)

SpecDebounce == Init /\ [][NextDebounce]_vars

\* The periodic timer under typing: key events are the only other activity.
NextPeriodic ==
    \/ ModuleInit
    \/ Timely(HalfDelay) /\ Within(HalfDelay) /\ Tick(HalfDelay)
    \/ timer_started /\ Timely(timer_due - now) /\ Within(timer_due - now)
          /\ Tick(timer_due - now)
    \/ events < MaxKeys /\ KeystrokeEvent(TRUE, 0)
    \/ PeriodicSaveHandler
    \/ \E rc \in {0, 0 - ENOENT} : SaveWorkHandler(rc)

SpecPeriodic == Init /\ [][NextPeriodic]_vars

\* The persistence interface: export into a buffer, import from it.
NextPersist ==
    \/ ModuleInit
    \/ \E d \in {LongStep, ShortStep} : Within(d) /\ Tick(d)
    \/ events < MaxPersistKeys /\ KeystrokeEvent(TRUE, 0)
    \/ state.callback_count < MaxObservers /\ RegisterCallback("h1", "u1")
    \/ GetPersistData
    \/ persist_buf # NoData /\ LoadPersistData(persist_buf)
    \/ persist_buf # NoData /\
          \E v \in {0, 2} : LoadPersistData([persist_buf EXCEPT !.version = v])
    \/ LoadPersistData(NoData)

SpecPersist == Init /\ [][NextPersist]_vars

\* The threads of the firmware, interleaved between their mutex calls.  A read,
\* an export and a registration change nothing that a later one depends on, so one
\* of each, placed anywhere in the run, stands for all of them.
NextThreads ==
    \/ ModuleInit
    \/ now \div LongStep < MaxThreadDays /\ Within(LongStep) /\ Tick(LongStep)
    \/ snap = NoData /\ GetLock("ui")
    \/ GetCounters("ui") \/ GetRest("ui") \/ GetReturn("ui")
    \/ events < MaxThreadKeys /\ PressLock("input")
    \/ PressCount("input") \/ PressRest("input", 0) \/ PressReturn("input")
    \/ ResetLock("app", FALSE)
    \/ ResetBody("app") \/ ResetUnlock("app") \/ ResetSave("app") \/ ResetNotify("app")
    \/ persist_buf = NoData /\ k_mutex_lock(mutex, "app") /\ pc["app"] = "idle"
          /\ GetPersistData
    \/ LoadLock("app") \/ LoadBody("app") \/ LoadUnlock("app") \/ LoadNotify("app")
    \/ state.callback_count = 0 /\ RegisterLock("app", "h1", "u1")
    \/ RegisterBody("app") \/ RegisterReturn("app")
    \/ ForceSave("app")

SpecThreads == Init /\ [][NextThreads]_vars

\* Every operation that notifies, with two observers that come and go, each
\* registered at most once at a time.
NextObservers ==
    \/ ModuleInit
    \/ now \div LongStep < MaxDaysSmall /\ Within(LongStep) /\ Tick(LongStep)
    \/ events < MaxKeysSmall /\ KeystrokeEvent(TRUE, 0)
    \/ Reset(FALSE)
    \/ \E o \in {<<"h1", "u1">>, <<"h2", "u2">>} :
          /\ \A i \in 0..(state.callback_count - 1) : state.callbacks[i].callback # o[1]
          /\ RegisterCallback(o[1], o[2])
    \/ \E cb \in Handlers : UnregisterCallback(cb)
    \/ persist_buf = NoData /\ GetPersistData
    \/ persist_buf # NoData /\ LoadPersistData(persist_buf)

SpecObservers == Init /\ [][NextObservers]_vars

\* Every operation the lifetime total passes through.
NextTotal ==
    \/ ModuleInit
    \/ now \div LongStep < MaxDaysSmall /\ Within(LongStep) /\ Tick(LongStep)
    \/ events < MaxKeysSmall /\ KeystrokeEvent(TRUE, 0)
    \/ KeystrokeEvent(FALSE, 0)
    \/ \E b \in BOOLEAN : Reset(b)
    \/ Save
    \/ state.callback_count = 0 /\ RegisterCallback("h1", "u1")
    \/ UnregisterCallback("h1")
    \/ persist_buf = NoData /\ GetPersistData
    \/ persist_buf # NoData /\ LoadPersistData(persist_buf)

SpecTotal == Init /\ [][NextTotal]_vars

\* The daily history under keystrokes, rollovers, resets and imports, the imports
\* taking either an export of the engine or a snapshot the caller has filled in:
\* daily_history_count is a uint8_t field of the caller's structure.  No observer
\* is registered and no snapshot is read here, so no step reads the history
\* through a count larger than the array.
NextHistory ==
    \/ ModuleInit
    \/ Within(LongStep) /\ Tick(LongStep)
    \/ events < MaxPersistKeys /\ KeystrokeEvent(TRUE, 0)
    \/ Reset(FALSE)
    \/ persist_buf = NoData /\ GetPersistData
    \/ persist_buf # NoData /\
          \E n \in 0..(DAILY_HISTORY_DAYS + 1) :
             LoadPersistData([persist_buf EXCEPT !.daily_history_count = n])

SpecHistory == Init /\ [][NextHistory]_vars

\* Typing: a pause before each key, short enough to keep ten samples inside the
\* speed window or long enough to age them out of it.  Keys without a pause,
\* resets and idle gaps beyond the session timeout come at the start of a run, and
\* an idle gap once more when the ring of samples is full.
QuickGap == WPM_WINDOW_MS \div WPM_SLOTS
SlowGap == WPM_WINDOW_MS \div 2 + 1
IdleGap == SESSION_TIMEOUT_MS + 1

NextTyping ==
    \/ ModuleInit
    \/ op.name # "tick" /\ \E d \in {QuickGap, SlowGap} : Tick(d)
    \/ op.name # "tick" /\ (events <= MaxKeysSmall \/ events >= MaxTypingKeys - 1)
          /\ Tick(IdleGap)
    \/ events < MaxTypingKeys /\ (op.name = "tick" \/ events <= MaxKeysSmall)
          /\ KeystrokeEvent(TRUE, 0)
    \/ events <= MaxKeysSmall /\ op.name = "keystroke" /\ Reset(FALSE)

SpecTyping == Init /\ [][NextTyping]_vars

\* Even typing from a cleared engine: a press every ShortStep milliseconds, on
\* either of two keys.
NextSteady ==
    \/ ModuleInit
    \/ events = 0 /\ op.name = "init" /\ Reset(FALSE)
    \/ op.name = "keystroke" /\ Tick(ShortStep)
    \/ events < MaxSteadyKeys /\ op.name \in {"init", "reset", "tick"}
          /\ \E p \in {0, 1} : KeystrokeEvent(TRUE, p)

SpecSteady == Init /\ [][NextSteady]_vars

\* The peak speed: a pause after the initialisation and after each press, short,
\* longer than the session timeout or a day long; resets, one export and imports
\* of it at any point.
NextPeak ==
    \/ ModuleInit
    \/ op.name \in {"init", "keystroke"} /\ \E d \in {QuickGap, IdleGap, LongStep} : Tick(d)
    \/ events < MaxKeys /\ KeystrokeEvent(TRUE, 0)
    \/ Reset(FALSE)
    \/ persist_buf = NoData /\ GetPersistData
    \/ persist_buf # NoData /\ LoadPersistData(persist_buf)

SpecPeak == Init /\ [][NextPeak]_vars

\* The per-key counters: presses of the first key, the last key and a position
\* past the heatmap, with or without an observer, and reads between them.
NextKeyCount ==
    \/ ModuleInit
    \/ events < MaxKeys /\
          \E p \in {0, MAX_KEY_POSITIONS - 1, MAX_KEY_POSITIONS} : KeystrokeEvent(TRUE, p)
    \/ \E heatmap \in BOOLEAN, p \in 0..MAX_KEY_POSITIONS, has_out \in BOOLEAN :
          GetKeyCount(heatmap, p, has_out)
    \/ state.callback_count = 0 /\ RegisterCallback("h1", "u1")

SpecKeyCount == Init /\ [][NextKeyCount]_vars

\* Days of typing from a fresh start: keys, day boundaries and resets, nothing
\* imported.
NextDays ==
    \/ ModuleInit
    \/ Within(LongStep) /\ Tick(LongStep)
    \/ events < MaxKeys /\ KeystrokeEvent(TRUE, 0)
    \/ \E b \in BOOLEAN : Reset(b)

SpecDays == Init /\ [][NextDays]_vars

\* The observer registry alone.
NextRegistry ==
    \/ \E cb \in Handlers \cup {NULL}, ud \in UserData : RegisterCallback(cb, ud)
    \/ \E cb \in Handlers : UnregisterCallback(cb)

SpecRegistry == Init /\ [][NextRegistry]_vars

\* The ranking of zmk_keystroke_stats_get over every heatmap content.
InitRanking ==
    /\ \E kc \in [Positions -> 0..MaxCount] : state = [ZeroState EXCEPT !.key_counts = kc]
    /\ now = 0
    /\ save_work = "idle"
    /\ save_due = 0
    /\ timer_started = FALSE
    /\ timer_due = 0
    /\ settings_data = NoData
    /\ persist_buf = NoData
    /\ snap = NoData
    /\ count_out = 0
    /\ lock_count = 0
    /\ raised = <<>>
    /\ typed = <<>>
    /\ op = [name |-> "none", arg |-> NULL]
    /\ ret = 0
    /\ calls = <<>>
    /\ mutex = NULL
    /\ pc = [th \in Threads |-> "idle"]
    /\ local = [th \in Threads |-> NoData]
    /\ events = 0
    /\ undisturbed = FALSE
    /\ hist = NoHistory

NextRanking == Get

SpecRanking == InitRanking /\ [][NextRanking]_vars

\* The session average over session counts and durations on both sides of the
\* values at which a product of the computation reaches 2^32.  The engine has
\* counted count - 1 presses of a session that began at uptime 1, the last of them
\* a millisecond ago; the fields update_wpm does not read are those of an engine
\* that counted them on the current day.
SessionCounts == {2, 3, 100, 35791, 35792, 71582, 71583, 71584, 143166, 1000000}
SessionDurations == {1, 2, 1000, 12000, 10000000, 429496729, 429496730,
                     858993459, 858993460, 2147483000}

InitAverage ==
    /\ \E k \in SessionCounts, d \in SessionDurations :
          LET start == 1
              last == start + d - 1
              held == Min(k - 1, WPM_SLOTS)
          IN  /\ now = start + d
              /\ typed = [i \in 1..held |-> last]
              /\ state = [ZeroState EXCEPT
                            !.initialized = TRUE,
                            !.total_keystrokes = k - 1,
                            !.today_keystrokes = k - 1,
                            !.key_counts[0] = k - 1,
                            !.session_keystrokes = k - 1,
                            !.session_start_time = start,
                            !.last_keystroke_time = last,
                            !.current_uptime_day = get_uptime_day(last),
                            !.average_wpm = IF last > start THEN Wpm(k - 1, last - start)
                                            ELSE 0,
                            !.wpm_window =
                               [keystrokes |-> [i \in 0..(WPM_SLOTS - 1) |->
                                                  IF i < held THEN 1 ELSE 0],
                                timestamps |-> [i \in 0..(WPM_SLOTS - 1) |->
                                                  IF i < held THEN last ELSE 0],
                                head |-> held % WPM_SLOTS,
                                count |-> held]]
    /\ save_work = "idle"
    /\ save_due = 0
    /\ timer_started = FALSE
    /\ timer_due = 0
    /\ settings_data = NoData
    /\ persist_buf = NoData
    /\ snap = NoData
    /\ count_out = 0
    /\ lock_count = 0
    /\ raised = <<>>
    /\ op = [name |-> "none", arg |-> NULL]
    /\ ret = 0
    /\ calls = <<>>
    /\ mutex = NULL
    /\ pc = [th \in Threads |-> "idle"]
    /\ local = [th \in Threads |-> NoData]
    /\ events = 0
    /\ undisturbed = FALSE
    /\ hist = NoHistory

NextAverage == events = 0 /\ KeystrokeEvent(TRUE, 0)

SpecAverage == InitAverage /\ [][NextAverage]_vars

\* Booting over a stored entry of any kind: none, or one of the right or a wrong
\* length, readable or not, holding a snapshot of the supported, an older or a
\* newer version, taken on the day of the boot or on a later day of the uptime
\* before it.
Snapshots ==
    {[zmk_keystroke_stats_get_persist_data(
         [ZeroState EXCEPT !.total_keystrokes = n, !.today_keystrokes = n,
                           !.key_counts[0] = n, !.current_uptime_day = d])
       EXCEPT !.version = v] :
        n \in 1..MaxCount, d \in 0..MaxDaysSmall,
        v \in {0, PERSIST_DATA_VERSION, PERSIST_DATA_VERSION + 1}}

StoredEntries ==
    {NoData} \cup [size_ok : BOOLEAN, read_rc : {0, 0 - ENOENT}, data : Snapshots]

InitBoot ==
    /\ state = ZeroState
    /\ now = 0
    /\ save_work = "idle"
    /\ save_due = 0
    /\ timer_started = FALSE
    /\ timer_due = 0
    /\ settings_data \in StoredEntries
    /\ persist_buf = NoData
    /\ snap = NoData
    /\ count_out = 0
    /\ lock_count = 0
    /\ raised = <<>>
    /\ typed = <<>>
    /\ op = [name |-> "none", arg |-> NULL]
    /\ ret = 0
    /\ calls = <<>>
    /\ mutex = NULL
    /\ pc = [th \in Threads |-> "idle"]
    /\ local = [th \in Threads |-> NoData]
    /\ events = 0
    /\ undisturbed = FALSE
    /\ hist = NoHistory

NextBoot ==
    \/ ModuleInit
    \/ now \div LongStep < MaxDaysSmall /\ Tick(LongStep)
    \/ events < MaxKeysSmall /\ KeystrokeEvent(TRUE, 0)
    \/ Get

SpecBoot == InitBoot /\ [][NextBoot]_vars

\* The save path with the handler's statements interleaved with the requests,
\* the pressed keys being those that roll the day over: time advances by half a debounce delay, to the end of the delay of a scheduled
\* save, or to the next expiry of the periodic timer.
SaveWorkStep ==
    \/ SaveWorkBegin
    \/ \E rc \in {0, 0 - ENOENT} : SaveWorkWrite(rc)
    \/ SaveWorkEnd

DelayEnds ==
    /\ save_work = "scheduled"
    /\ now < save_due
    /\ Tick(save_due - now)

\* requests are made during the first MaxQueueSteps half delays of a day
Early == (now % LongStep) \div HalfDelay < MaxQueueSteps

NextQueue ==
    \/ ModuleInit
    \/ Timely(HalfDelay) /\ Early /\ Tick(HalfDelay)
    \/ DelayEnds
    \/ timer_started /\ Timely(timer_due - now) /\ now \div LongStep < MaxDaysSmall
          /\ Tick(timer_due - now)
    \/ events < MaxKeysSmall /\ get_uptime_day(now) # state.current_uptime_day
          /\ KeystrokeEvent(TRUE, 0)
    \/ Early /\ Reset(FALSE)
    \/ Early /\ Save
    \/ PeriodicSaveHandler
    \/ SaveWorkStep

\* the work queue runs its items, and time passes
SpecQueue == Init /\ [][NextQueue]_vars /\ WF_vars(SaveWorkStep) /\ WF_vars(DelayEnds)

\* callback is in the table of observers
InTable(callback) ==
    \E i \in 0..(state.callback_count - 1) : state.callbacks[i].callback = callback

\* The notification pass of reset and import against the registry: the
\* application thread registers h2, which is never unregistered, resets, exports
\* and imports; the ui thread registers and unregisters h1 meanwhile.
NextPass ==
    \/ ModuleInit
    \/ ~InTable("h2") /\ RegisterAny("app", "h2", "u2")
    \/ RegisterBody("app") \/ RegisterReturn("app")
    \/ ResetLock("app", FALSE)
    \/ ResetBody("app") \/ ResetUnlock("app") \/ ResetSave("app")
    \/ persist_buf = NoData /\ k_mutex_lock(mutex, "app") /\ pc["app"] = "idle"
          /\ GetPersistData
    \/ LoadLock("app") \/ LoadBody("app") \/ LoadUnlock("app")
    \/ \E p \in AppPasses :
          \/ NotifyEnter("app", p)
          \/ NotifySnapshot("app", p)
          \/ NotifyTest("app", p)
          \/ NotifyCall("app", p)
    \/ ~InTable("h1") /\ RegisterAny("ui", "h1", "u1")
    \/ RegisterBody("ui") \/ RegisterReturn("ui")
    \/ UnregisterLock("ui", "h1")
    \/ UnregisterBody("ui") \/ UnregisterReturn("ui")

SpecPass == Init /\ [][NextPass]_vars

\* The locking of every public operation, statement by statement: the input
\* thread delivers key events, the application thread calls the API with one
\* handler that it registers up to a full table.
InputStep ==
    \/ PressCount("input") \/ PressRecord("input", 0) \/ PressReturn("input")
    \/ \E p \in PressPasses :
          \/ NotifyEnter("input", p)
          \/ NotifySnapshot("input", p)
          \/ NotifyTest("input", p)
          \/ NotifyCall("input", p)

NextLocks ==
    \/ ModuleInit
    \/ now \div LongStep < MaxDaysSmall /\ (\A th \in Threads : pc[th] = "idle")
          /\ Tick(LongStep)
    \/ events < MaxKeysSmall /\ PressLock("input")
    \/ InputStep
    \/ RegisterAny("app", "h1", "u1")
    \/ RegisterBody("app") \/ RegisterReturn("app")
    \/ UnregisterLock("app", "h1")
    \/ UnregisterBody("app") \/ UnregisterReturn("app")
    \/ GetLock("app")
    \/ GetCounters("app") \/ GetRest("app") \/ GetReturn("app")
    \/ ResetLock("app", FALSE)
    \/ ResetBody("app") \/ ResetUnlock("app") \/ ResetSave("app")
    \/ \E p \in AppPasses :
          \/ NotifyEnter("app", p)
          \/ NotifySnapshot("app", p)
          \/ NotifyTest("app", p)
          \/ NotifyCall("app", p)
    \/ RejectedCall("app")

\* the labels of the listener
PressLabels ==
    {"idle", "press_count", "press_rest", "press_unlock"}
        \cup UNION {{p.enter, p.snapshot, p.loop, p.call} : p \in PressPasses}

\* thread th is inside the listener, is not waiting for stats_mutex, and goes on
\* to another label
Runs(th) ==
    /\ pc[th] # "idle"
    /\ (\E p \in PressPasses : pc[th] = p.enter)
          => state.callback_count = 0 \/ k_mutex_lock(mutex, th)
    /\ \E l \in PressLabels \ {pc[th]} : pc' = [pc EXCEPT ![th] = l]

\* the input thread is scheduled: while it is in the listener and does not wait
\* for the mutex, its next statement is not postponed for ever
SpecLocks == Init /\ [][NextLocks]_vars /\ WF_pc(Runs("input"))

(***************************************************************************)
(* Properties                                                              *)
(***************************************************************************)
\* the step just taken is a pressed-key event
IsPress == op'.name = "keystroke" /\ op'.arg = TRUE
\* the state follows a pressed-key event
AfterPress == op.name = "keystroke" /\ op.arg = TRUE
\* the day derived from the uptime of the step
DerivedDay == get_uptime_day(now)
History == state.daily_history
HistoryCount == state.daily_history_count

\* the entry for the day that ends with the keystroke being processed
EndingDayEntry ==
    [year |-> 0, month |-> 0, day |-> state.current_uptime_day,
     keystrokes |-> state.today_keystrokes + 1]

\* the step adds exactly the entry e as the newest one, keeping the others in order
AppendsExactly(e) ==
    IF HistoryCount < DAILY_HISTORY_DAYS
    THEN /\ state'.daily_history_count = HistoryCount + 1
         /\ \A i \in 0..(HistoryCount - 1) : state'.daily_history[i] = History[i]
         /\ state'.daily_history[HistoryCount] = e
    ELSE /\ state'.daily_history_count = DAILY_HISTORY_DAYS
         /\ \A i \in 0..(DAILY_HISTORY_DAYS - 2) : state'.daily_history[i] = History[i + 1]
         /\ state'.daily_history[DAILY_HISTORY_DAYS - 1] = e

\* C1: from a fresh initialisation with nothing persisted, as long as no rollover,
\* reset or import has happened, total = today = the number of pressed-key events
\* processed, and yesterday = 0.
C1_FreshCounts ==
    undisturbed =>
        /\ state.total_keystrokes = events
        /\ state.today_keystrokes = events
        /\ state.yesterday_keystrokes = 0

C1_Witness == undisturbed /\ events >= 2 /\ now > 0 /\ state.total_keystrokes = events

\* C2: a pressed-key event one day boundary after the stored day moves today (with
\* this keystroke) to yesterday, zeroes today, stores the derived day and adds
\* exactly one history entry {stored day, that count}; a pressed-key event in the
\* stored day rolls nothing over.
C2_SingleRollover ==
    [][ /\ (IsPress /\ DerivedDay = state.current_uptime_day + 1) =>
              /\ state'.yesterday_keystrokes = state.today_keystrokes + 1
              /\ state'.today_keystrokes = 0
              /\ state'.current_uptime_day = DerivedDay
              /\ AppendsExactly(EndingDayEntry)
        /\ (IsPress /\ DerivedDay = state.current_uptime_day) =>
              /\ state'.daily_history = History
              /\ state'.daily_history_count = HistoryCount
              /\ state'.yesterday_keystrokes = state.yesterday_keystrokes
              /\ state'.today_keystrokes = state.today_keystrokes + 1
              /\ state'.current_uptime_day = state.current_uptime_day
      ]_vars

\* a rollover that found the history full: the entry of day 0 is gone
C2_Witness ==
    /\ AfterPress
    /\ state.today_keystrokes = 0 /\ state.yesterday_keystrokes >= 1
    /\ HistoryCount = DAILY_HISTORY_DAYS
    /\ History[0].day >= 1
    /\ History[DAILY_HISTORY_DAYS - 1].day + 1 = state.current_uptime_day

\* C3: a pressed-key event two or more day boundaries after the stored day adds
\* exactly one history entry, for the stored day (a day that has elapsed, none
\* for the skipped days or the new day); it differs from the entry that was the
\* newest, and no two entries of the history carry the same day.
C3_SkippedDays ==
    [][ (IsPress /\ DerivedDay > state.current_uptime_day + 1) =>
              /\ AppendsExactly(EndingDayEntry)
              /\ state'.current_uptime_day = DerivedDay
              /\ state'.daily_history[state'.daily_history_count - 1].day < DerivedDay
              /\ HistoryCount > 0 =>
                    History[HistoryCount - 1].day
                        # state'.daily_history[state'.daily_history_count - 1].day
              /\ \A i, j \in 0..(state'.daily_history_count - 1) :
                    i # j => state'.daily_history[i].day # state'.daily_history[j].day
      ]_vars

\* after a rollover over two boundaries, with an older entry in the history
C3_Witness ==
    /\ AfterPress
    /\ state.today_keystrokes = 0
    /\ HistoryCount >= 2
    /\ History[HistoryCount - 1].day + 2 <= state.current_uptime_day

\* C4 as stated: after every pressed-key event on an initialised engine a save is
\* scheduled and save_pending is true.
C4_SaveAfterEveryPress ==
    (AfterPress /\ state.initialized) =>
        (save_work = "scheduled" /\ state.save_pending)

\* C4 amended: a pressed-key event on an initialised engine schedules a save
\* exactly when it rolls the day over; otherwise it leaves the work item and
\* save_pending as they were.
C4_SaveOnRolloverOnly ==
    [][ (IsPress /\ state.initialized) =>
            IF DerivedDay # state.current_uptime_day
            THEN save_work' = "scheduled" /\ state'.save_pending
            ELSE save_work' = save_work /\ state'.save_pending = state.save_pending
      ]_vars

C4_Witness ==
    /\ AfterPress /\ state.initialized
    /\ state.today_keystrokes = 0 /\ state.yesterday_keystrokes >= 1
    /\ save_work = "scheduled" /\ state.save_pending

TopIdx == 0..(TOP_KEYS_COUNT - 1)

\* C5: in the ranking of a snapshot, equal counts appear in ascending position
\* order, and a position left out never has the count of a listed higher position.
C5_TiesByLowestIndex ==
    snap # NoData =>
        LET top == snap.top_keys
        IN  /\ \A i, j \in TopIdx :
                (i < j /\ top[i].count = top[j].count) => top[i].position < top[j].position
            /\ \A i \in TopIdx : \A p \in Positions :
                (p < top[i].position /\ state.key_counts[p] = top[i].count)
                    => \E j \in TopIdx : top[j].position = p

\* C6: the ranking lists TOP_KEYS_COUNT distinct positions, each with its own
\* count, in non-increasing count order, no position left out has a larger count
\* than a listed one, and taking the snapshot leaves the engine state as it was.
C6_TopKeysAreLargest ==
    [][ op'.name = "get" =>
            LET top == snap'.top_keys
            IN  /\ state' = state
                /\ \A i \in TopIdx : top[i].position \in Positions
                /\ \A i, j \in TopIdx : i # j => top[i].position # top[j].position
                /\ \A i \in TopIdx : top[i].count = state.key_counts[top[i].position]
                /\ \A i, j \in TopIdx : i < j => top[i].count >= top[j].count
                /\ \A p \in Positions :
                      (\A i \in TopIdx : top[i].position # p) =>
                          \A i \in TopIdx : state.key_counts[p] <= top[i].count
      ]_vars

\* a ranking that had to swap: the highest count at the last position
C6_Witness ==
    /\ snap # NoData
    /\ snap.top_keys[0].position = MAX_KEY_POSITIONS - 1
    /\ snap.top_keys[0].count > snap.top_keys[1].count
    /\ snap.top_keys[1].count > 0

\* C7: an import of the buffer that the step before exported succeeds and leaves
\* the engine state (counters, day, peak speed, heatmap, history) as it was.
C7_RoundTrip ==
    [][ (op.name = "get_persist" /\ op'.name = "load_persist" /\ op'.arg = persist_buf) =>
            /\ ret' = 0
            /\ state' = state
      ]_vars

C7_Witness ==
    /\ op.name = "load_persist" /\ ret = 0
    /\ op.arg = zmk_keystroke_stats_get_persist_data(state)
    /\ state.total_keystrokes >= 2 /\ state.yesterday_keystrokes >= 1
    /\ state.peak_wpm > 0 /\ HistoryCount >= 1

\* C8: an import of data whose version is not 1 fails with -EINVAL, changes no
\* field of the state, invokes no observer and schedules no save.
C8_VersionMismatch ==
    [][ (op'.name = "load_persist" /\ op'.arg # NoData
            /\ op'.arg.version # PERSIST_DATA_VERSION) =>
            /\ ret' = 0 - EINVAL
            /\ state' = state
            /\ calls' = <<>>
            /\ save_work' = save_work
      ]_vars

\* rejected data that differ from the state, with an observer registered
C8_Witness ==
    /\ op.name = "load_persist" /\ op.arg # NoData
    /\ op.arg.version # PERSIST_DATA_VERSION
    /\ ret = 0 - EINVAL
    /\ state.callback_count > 0
    /\ op.arg.total_keystrokes # state.total_keystrokes
    /\ op.arg.current_uptime_day # state.current_uptime_day

\* the invocations a notification of all observers makes in state s
NotifiedAll(s) ==
    [i \in 1..s.callback_count |->
        [callback |-> s.callbacks[i - 1].callback,
         user_data |-> s.callbacks[i - 1].user_data,
         stats |-> zmk_keystroke_stats_get(s)]]

C10_Register ==
    /\ [](state.callback_count \in 0..MAX_CALLBACKS)
    /\ [][ op'.name = "register" =>
            LET callback == op'.arg[1]
                user_data == op'.arg[2]
                n == state.callback_count
            IN  IF callback # NULL /\ n < MAX_CALLBACKS
                THEN /\ ret' = 0
                     /\ state'.callback_count = n + 1
                     /\ state'.callbacks[n] =
                            [callback |-> callback, user_data |-> user_data]
                     /\ \A i \in 0..(n - 1) : state'.callbacks[i] = state.callbacks[i]
                ELSE /\ ret' = IF callback = NULL THEN 0 - EINVAL ELSE 0 - ENOMEM
                     /\ state' = state
         ]_vars

\* a fifth registration refused
C10_Witness ==
    /\ op.name = "register" /\ op.arg[1] # NULL
    /\ ret = 0 - ENOMEM
    /\ state.callback_count = MAX_CALLBACKS

\* the registered observers of state s, in registration order
Registered(s) == [k \in 1..s.callback_count |-> s.callbacks[k - 1]]

\* sequence q without its k-th element
RemoveAt(q, k) == [j \in 1..(Len(q) - 1) |-> IF j < k THEN q[j] ELSE q[j + 1]]

\* C11: unregister_callback(h) returns -ENOENT and changes nothing when no
\* registered entry has handler h; otherwise it returns 0, removes the earliest
\* registered entry with handler h, decrements the count by one and keeps the
\* other entries, with their contexts, in the order they had.
C11_Unregister ==
    [][ op'.name = "unregister" =>
            LET q == Registered(state)
                matches == {k \in 1..Len(q) : q[k].callback = op'.arg}
            IN  IF matches = {}
                THEN ret' = 0 - ENOENT /\ state' = state
                ELSE /\ ret' = 0
                     /\ state'.callback_count = state.callback_count - 1
                     /\ \E k \in matches :
                            /\ \A j \in matches : k <= j
                            /\ Registered(state') = RemoveAt(q, k)
      ]_vars

\* the second of four observers was removed, and a later entry with the same
\* handler and another context stays registered
C11_Witness ==
    /\ op.name = "unregister" /\ ret = 0
    /\ state.callback_count = MAX_CALLBACKS - 1
    /\ state.callbacks[0].callback # op.arg
    /\ state.callbacks[1].callback # op.arg
    /\ state.callbacks[2].callback = op.arg

\* the step just taken asked for a save: a forced save, a timer expiry, a reset
\* or a pressed key that rolls the day over
IsSaveRequest ==
    \/ op'.name \in {"save", "periodic", "reset"}
    \/ IsPress /\ DerivedDay # state.current_uptime_day

\* C12: on an initialised engine every save request leaves the work scheduled
\* one full debounce delay after the request, whatever delay was running; the
\* save attempt is made one debounce delay after the last request and leaves the
\* work idle, so the requests of a burst share one attempt.
C12_PureDebounce ==
    [][ /\ (IsSaveRequest /\ state.initialized) =>
              /\ save_work' = "scheduled"
              /\ save_due' = now + SAVE_DEBOUNCE_MS
              /\ state'.save_pending
        /\ op'.name = "save_work" =>
              /\ save_work = "scheduled"
              /\ hist.last_request # NoTime
              /\ now = hist.last_request + SAVE_DEBOUNCE_MS
              /\ save_work' = "idle"
      ]_vars

\* an attempt that served a burst: with no key pressed, a reset (the only step
\* that then moves session_start_time) armed the work, a later request came
\* before that delay ended, and the one attempt was made a delay after the latter
C12_Witness ==
    /\ op.name = "save_work"
    /\ hist.last_attempt = hist.last_request + SAVE_DEBOUNCE_MS
    /\ state.total_keystrokes = 0
    /\ events = 0
    /\ state.session_start_time > 0
    /\ hist.last_request > state.session_start_time
    /\ hist.last_request - state.session_start_time < SAVE_DEBOUNCE_MS

\* C13 as stated: while a timer expiry has not been followed by a save attempt,
\* the attempt is due within one debounce delay of the expiry.
C13_AttemptWithinOneDelay ==
    hist.expired_at # NoTime =>
        /\ save_work = "scheduled"
        /\ save_due <= hist.expired_at + SAVE_DEBOUNCE_MS

\* C13 amended: under typing, a timer expiry is followed by a save attempt one
\* debounce delay after the expiry or, when a pressed key rolls the day over
\* before that attempt, one debounce delay after that keystroke, which is at
\* most two delays after the expiry; two consecutive save attempts are never
\* further apart than the save interval plus the debounce delay.
C13_AttemptWithinTwoDelays ==
    /\ [](hist.expired_at # NoTime =>
            /\ save_work = "scheduled"
            /\ save_due = hist.last_request + SAVE_DEBOUNCE_MS
            /\ hist.last_request >= hist.expired_at
            /\ hist.last_request - hist.expired_at <= SAVE_DEBOUNCE_MS)
    /\ [][ (op'.name = "save_work" /\ hist.last_attempt # NoTime) =>
                now - hist.last_attempt <= SAVE_INTERVAL_MS + SAVE_DEBOUNCE_MS
         ]_vars

\* a second attempt, made more than one delay after the expiry it follows
C13_Witness ==
    /\ op.name = "save_work"
    /\ hist.last_attempt > 2 * SAVE_INTERVAL_MS + SAVE_DEBOUNCE_MS
    /\ state.yesterday_keystrokes >= 1

\* C14: the save handler runs with save_pending set; when the storage reports
\* success it clears save_pending, when the storage reports failure it leaves
\* save_pending set; either way it changes no other field of the state, and it
\* leaves the work idle: it schedules no retry.
C14_SaveHandler ==
    [][ op'.name = "save_work" =>
            /\ state.save_pending
            /\ state' = [state EXCEPT !.save_pending = (op'.arg # 0)]
            /\ save_work' = "idle"
      ]_vars

\* a failed save after keystrokes: the flag is still set, nothing is scheduled
C14_Witness ==
    /\ op.name = "save_work" /\ op.arg # 0
    /\ state.save_pending
    /\ save_work = "idle"
    /\ state.total_keystrokes >= 1 /\ state.yesterday_keystrokes >= 1

\* C15: while the engine is not initialised no work is scheduled and
\* save_pending is false, whatever was requested; a forced save returns 0 in
\* either case, and on an initialised engine it leaves the work scheduled with
\* save_pending set.
C15_NoSaveBeforeInit ==
    /\ [](~state.initialized => (save_work = "idle" /\ ~state.save_pending))
    /\ [][ op'.name = "save" =>
            /\ ret' = 0
            /\ state.initialized => (save_work' = "scheduled" /\ state'.save_pending)
         ]_vars

\* a forced save before initialisation: success reported, nothing armed
C15_Witness ==
    /\ op.name = "save" /\ ret = 0
    /\ ~state.initialized
    /\ save_work = "idle" /\ ~state.save_pending

\* C16: a snapshot that zmk_keystroke_stats_get returns while other threads record
\* keystrokes, roll the day over, reset and import is the readable state of one
\* instant, the instant of its return: every field of it has the value the state
\* holds then, and the return itself changes no field.
C16_SnapshotAtomic ==
    [][op'.name = "get_return" =>
         /\ snap' = zmk_keystroke_stats_get(state)
         /\ state' = state]_vars

\* a snapshot taken between the unlock of a reset and its notification, after a
\* keystroke was counted
C16_Witness ==
    /\ op.name = "get_return"
    /\ pc["app"] = "reset_notify"
    /\ snap.total_keystrokes >= 1
    /\ snap.today_keystrokes = 0

\* C17: every step of a thread that writes a field of the state or invokes the
\* observers read from the registry is taken by the thread that holds stats_mutex
\* before and after the step (the memset of the initialisation apart).
C17_WritesHoldMutex ==
    [][(state' # state \/ calls' # <<>>) /\ op'.name # "init" =>
         /\ mutex = op'.arg
         /\ mutex' = op'.arg]_vars

\* the pressed key of this step finds the day changed
RollsOver == get_uptime_day(now) # state.current_uptime_day

\* C18: a pressed key, a reset and a successful import invoke, within the step of
\* the call, every observer registered at that moment, in registration order, each
\* with its own context and with a snapshot of the state the call leaves (for a
\* pressed key its total counts that key); a pressed key that rolls the day over
\* makes this round twice, once for the rollover and once for the key.
C18_ObserversNotified ==
    [][/\ op'.name = "keystroke" /\ op'.arg =>
            /\ calls' = IF RollsOver THEN NotifiedAll(state') \o NotifiedAll(state')
                        ELSE NotifiedAll(state')
            /\ \A i \in DOMAIN calls' :
                  calls'[i].stats.total_keystrokes = state.total_keystrokes + 1
       /\ op'.name = "reset" => calls' = NotifiedAll(state')
       /\ op'.name = "load_persist" /\ ret' = 0 => calls' = NotifiedAll(state')
      ]_vars

\* two observers with different contexts, the second registered first, are invoked
\* twice each by a pressed key that rolls the day over
C18_Witness ==
    /\ op.name = "keystroke"
    /\ state.callback_count = 2
    /\ state.callbacks[0].callback = "h2"
    /\ state.callbacks[1].callback = "h1"
    /\ Len(calls) = 4
    /\ calls[1].user_data = "u2"
    /\ calls[4].user_data = "u1"
    /\ calls[1].stats.total_keystrokes = 1
    /\ calls[1].stats.current_uptime_day = 1

C20_HistoryBounded ==
    /\ state.daily_history_count <= DAILY_HISTORY_DAYS
    /\ state.daily_history_count >= 0

\* C21: every pressed-key event leaves current_uptime_day equal to
\* floor(max(0, uptime_hours - DAY_ROLLOVER_HOUR) / 24) at the uptime of the event,
\* and no step other than the rollover check of a pressed key changes the stored
\* day index: no reset and no import.
C21_DayOnlyByRollover ==
    [][/\ op'.name = "keystroke" /\ op'.arg =>
            LET h == (now \div MS_PER_HOUR) - DAY_ROLLOVER_HOUR
            IN  state'.current_uptime_day = (IF h < 0 THEN 0 ELSE h) \div HOURS_PER_DAY
       /\ state'.current_uptime_day # state.current_uptime_day =>
            op'.name = "keystroke" /\ op'.arg
      ]_vars

\* C22: a key-release event changes no field of the engine state, invokes no
\* observer and neither arms nor moves the save work.
C22_ReleaseIgnored ==
    [][op'.name = "keystroke" /\ ~op'.arg =>
         /\ state' = state
         /\ calls' = <<>>
         /\ save_work' = save_work
         /\ save_due' = save_due]_vars

\* a release after a counted press, with an observer registered and no save armed
C22_Witness ==
    /\ op.name = "keystroke"
    /\ ~op.arg
    /\ state.initialized
    /\ state.total_keystrokes = 1
    /\ state.callback_count = 1
    /\ save_work = "idle"

\* C23: every pressed key (with or without a rollover) and every reset hands one
\* zmk_keystroke_stats_changed event to the event manager, whose total, today and
\* yesterday are the counters the step leaves.
C23_ChangeEventRaised ==
    [][(op'.name = "keystroke" /\ op'.arg) \/ op'.name = "reset" =>
         raised' = Append(raised,
                      [total_keystrokes |-> state'.total_keystrokes,
                       today_keystrokes |-> state'.today_keystrokes,
                       yesterday_keystrokes |-> state'.yesterday_keystrokes])]_vars

\* the samples of the latest presses that are no older than the speed window
Fresh == {i \in 1..Len(typed') : now - typed'[i] <= WPM_WINDOW_MS}

\* C24: after a pressed key, current_wpm is min(255, floor(n * 60000 / (elapsed * 5)))
\* where n counts the samples among the ten latest presses since the last reset
\* that are no older than the window and elapsed runs from the oldest of them to
\* now; it is 0 when elapsed is 0.
C24_CurrentWpm ==
    [][op'.name = "keystroke" /\ op'.arg =>
         LET n == Cardinality(Fresh)
             oldest == CHOOSE x \in {typed'[i] : i \in Fresh} :
                          \A i \in Fresh : x <= typed'[i]
             elapsed_ms == now - oldest
         IN  state'.current_wpm =
                IF n = 0 \/ elapsed_ms = 0 THEN 0
                ELSE Min(255, (n * 60000) \div (elapsed_ms * 5))]_vars

\* more than ten presses, the latest measured over fewer samples than the ring
\* holds because the older ones have aged out of the window
C24_Witness ==
    /\ op.name = "keystroke"
    /\ events > WPM_SLOTS
    /\ state.wpm_window.count = WPM_SLOTS
    /\ state.current_wpm > 0
    /\ \E i \in 0..(WPM_SLOTS - 1) : now - state.wpm_window.timestamps[i] > WPM_WINDOW_MS
    /\ \E i \in 0..(WPM_SLOTS - 1) :
          /\ state.wpm_window.timestamps[i] < now
          /\ now - state.wpm_window.timestamps[i] <= WPM_WINDOW_MS

\* C25: after MaxSteadyKeys presses ShortStep milliseconds apart, typed into a
\* cleared engine whose window is longer than the run, current_wpm is the rate of
\* one press per ShortStep, 60000 / (ShortStep * 5), give or take one.
C25_SteadyRate ==
    (op.name = "keystroke" /\ events = MaxSteadyKeys
        /\ WPM_WINDOW_MS >= MaxSteadyKeys * ShortStep) =>
       LET rate == 60000 \div (ShortStep * 5)
       IN  state.current_wpm \in (rate - 1)..(rate + 1)

\* C26: after a pressed key in a session of k presses that began d > 0
\* milliseconds ago, average_wpm is min(255, floor(k * 60000 / (d * 5))) computed
\* in exact arithmetic.
C26_AverageExact ==
    (/\ op.name = "keystroke"
     /\ state.session_keystrokes > 0
     /\ state.session_start_time > 0
     /\ now > state.session_start_time) =>
       state.average_wpm = ExactWpm(state.session_keystrokes, now - state.session_start_time)

\* the pressed key of this step ends an idle gap longer than the session timeout
AfterIdle == now - state.last_keystroke_time > SESSION_TIMEOUT_MS

\* C27 as stated: peak_wpm is at least current_wpm in every state, and no step
\* other than a reset or the initialisation lowers it.
C27_PeakNeverLowered ==
    [][/\ state'.peak_wpm >= state'.current_wpm
       /\ state'.peak_wpm < state.peak_wpm => op'.name \in {"reset", "init"}]_vars

\* C27, amended: peak_wpm is the peak of the current session.  A pressed key
\* within the session timeout leaves the larger of the old peak and the new
\* current_wpm; a pressed key after a longer idle gap restarts the peak at the new
\* current_wpm; so after every pressed key the peak is at least current_wpm.
\* Besides such a key, only a reset, the initialisation and an import lower it.
C27_PeakOfSession ==
    [][/\ op'.name = "keystroke" /\ op'.arg =>
            /\ state'.peak_wpm >= state'.current_wpm
            /\ state'.peak_wpm =
                  IF AfterIdle \/ state'.current_wpm > state.peak_wpm
                  THEN state'.current_wpm ELSE state.peak_wpm
       /\ state'.peak_wpm < state.peak_wpm =>
            \/ op'.name \in {"reset", "init", "load_persist"}
            \/ op'.name = "keystroke" /\ op'.arg /\ AfterIdle]_vars

\* a press after an idle gap has cleared a peak that two presses QuickGap apart
\* had set
C27_Witness ==
    /\ op.name = "keystroke"
    /\ state.peak_wpm = 0
    /\ Len(typed) >= 3
    /\ typed[Len(typed) - 1] - typed[Len(typed) - 2] = QuickGap
    /\ now - typed[Len(typed) - 1] > SESSION_TIMEOUT_MS

\* C28: zmk_keystroke_stats_get_key_count returns -ENOTSUP in a build without the
\* heatmap, -EINVAL for a position past the heatmap or a NULL output, and otherwise
\* 0 with key_counts[position] in the output; it never changes the state, and a
\* refused call leaves the output as it was.
C28_GetKeyCount ==
    [][op'.name = "get_key_count" =>
         LET a == op'.arg
         IN  /\ state' = state
             /\ IF ~a.heatmap
                THEN ret' = 0 - ENOTSUP /\ count_out' = count_out
                ELSE IF a.position >= MAX_KEY_POSITIONS \/ ~a.has_out
                THEN ret' = 0 - EINVAL /\ count_out' = count_out
                ELSE ret' = 0 /\ count_out' = state.key_counts[a.position]]_vars

\* a read refused for its position, the output still holding what an earlier read
\* stored before the key was pressed again
C28_Witness ==
    /\ op.name = "get_key_count"
    /\ op.arg.heatmap /\ op.arg.has_out /\ op.arg.position = MAX_KEY_POSITIONS
    /\ ret = 0 - EINVAL
    /\ count_out = 1
    /\ state.key_counts[0] = 2

\* C29: when the stored entry has a wrong length the load handler returns -EINVAL,
\* and when it has the right length and holds a snapshot of another version the
\* handler returns 0; in both cases the initialisation returns 0 and leaves the
\* cleared state: every counter, the history and the heatmap zero, initialized
\* set.
C29_RejectedLoad ==
    [][(/\ op'.name = "init"
        /\ settings_data # NoData
        /\ \/ ~settings_data.size_ok
           \/ /\ settings_data.read_rc = 0
              /\ settings_data.data.version # PERSIST_DATA_VERSION) =>
          /\ op'.arg = IF settings_data.size_ok THEN 0 ELSE 0 - EINVAL
          /\ ret' = 0
          /\ state' = [ZeroState EXCEPT !.initialized = TRUE]]_vars

\* initialised over an entry of a wrong length whose bytes would pass as a
\* snapshot of the supported version
C29_Witness ==
    /\ op.name = "init"
    /\ settings_data # NoData
    /\ op.arg = 0 - EINVAL
    /\ ~settings_data.size_ok
    /\ settings_data.data.version = PERSIST_DATA_VERSION
    /\ settings_data.data.total_keystrokes > 0
    /\ state.initialized
    /\ state.total_keystrokes = 0

\* C30: a pressed key that arrives more than the session timeout after
\* last_keystroke_time leaves session_keystrokes = 1 and session_start_time = the
\* time of the key; one that arrives within the timeout adds one to
\* session_keystrokes and leaves the start time of a session that has keystrokes.
C30_SessionTimeout ==
    [][op'.name = "keystroke" /\ op'.arg =>
         IF now - state.last_keystroke_time > SESSION_TIMEOUT_MS
         THEN /\ state'.session_keystrokes = 1
              /\ state'.session_start_time = now
         ELSE /\ state'.session_keystrokes = state.session_keystrokes + 1
              /\ state.session_keystrokes > 0 =>
                    state'.session_start_time = state.session_start_time]_vars

\* the first key of a new session, pressed after an idle gap that followed a
\* session of at least two keys
C30_Witness ==
    /\ op.name = "keystroke"
    /\ state.session_keystrokes = 1
    /\ state.session_start_time = now
    /\ Len(typed) >= 3
    /\ typed[Len(typed) - 1] - typed[Len(typed) - 2] <= SESSION_TIMEOUT_MS
    /\ now - typed[Len(typed) - 1] > SESSION_TIMEOUT_MS

\* C33: a pressed key whose position is MAX_KEY_POSITIONS or more changes no
\* heatmap counter, one with a position p below it adds one to key_counts[p] and
\* to no other counter; either way the key adds one to total, today and the
\* session count, every observer is notified and the listener reports no error.
C33_HeatmapPosition ==
    [][IsPress =>
         /\ state'.key_counts =
               IF op'.position >= MAX_KEY_POSITIONS THEN state.key_counts
               ELSE [state.key_counts EXCEPT ![op'.position] = @ + 1]
         /\ state'.total_keystrokes = state.total_keystrokes + 1
         /\ state'.today_keystrokes = state.today_keystrokes + 1
         /\ state'.session_keystrokes = state.session_keystrokes + 1
         /\ calls' = NotifiedAll(state')
         /\ ret' = 0]_vars

\* a key past the heatmap, pressed after a key on it, with an observer notified
C33_Witness ==
    /\ AfterPress
    /\ op.position = MAX_KEY_POSITIONS
    /\ state.total_keystrokes = 2
    /\ state.key_counts[MAX_KEY_POSITIONS - 1] = 1
    /\ Len(calls) = 1

\* C34: the pressed key that finds the day changed is counted in the day that
\* ends: after it today is 0, yesterday is the count of the old day with this key,
\* and the history entry the rollover stores carries that count.
C34_RolloverKeyInOldDay ==
    [][IsPress /\ RollsOver =>
         LET newest == IF HistoryCount < DAILY_HISTORY_DAYS THEN HistoryCount
                       ELSE DAILY_HISTORY_DAYS - 1
         IN  /\ state'.today_keystrokes = 0
             /\ state'.yesterday_keystrokes = state.today_keystrokes + 1
             /\ state'.daily_history[newest].keystrokes = state.today_keystrokes + 1]_vars

\* the second key of a day, pressed after the day has ended
C34_Witness ==
    /\ AfterPress
    /\ state.today_keystrokes = 0
    /\ state.yesterday_keystrokes = 2
    /\ HistoryCount = 1
    /\ History[0].keystrokes = 2
    /\ state.current_uptime_day = DerivedDay

\* the invocations of handler h among the calls of the step
CallsOf(h) == {i \in DOMAIN calls' : calls'[i].callback = h}

\* C35: a pressed key invokes every registered observer once when the day has not
\* changed and twice when it has, once from the rollover and once from the
\* listener; the two invocations of an observer receive the same snapshot.
C35_OnceOrTwice ==
    [][IsPress =>
         /\ \A k \in 0..(state.callback_count - 1) :
               Cardinality(CallsOf(state.callbacks[k].callback)) =
                  IF RollsOver THEN 2 ELSE 1
         /\ Len(calls') = state.callback_count * (IF RollsOver THEN 2 ELSE 1)
         /\ \A i, j \in DOMAIN calls' :
               calls'[i].callback = calls'[j].callback =>
                  calls'[i].stats = calls'[j].stats]_vars

\* a rollover key with two observers registered: four invocations
C35_Witness ==
    /\ AfterPress
    /\ state.callback_count = 2
    /\ Len(calls) = 4
    /\ state.yesterday_keystrokes = 1
    /\ state.today_keystrokes = 0

\* the keystrokes of the first n entries of the history
RECURSIVE SumHistory(_)
SumHistory(n) == IF n = 0 THEN 0 ELSE History[n - 1].keystrokes + SumHistory(n - 1)

\* C36: without imports, today + yesterday never exceeds total, and neither does
\* today plus the keystrokes of all history entries.
C36_CountsWithinTotal ==
    /\ state.today_keystrokes + state.yesterday_keystrokes <= state.total_keystrokes
    /\ SumHistory(HistoryCount) + state.today_keystrokes <= state.total_keystrokes

\* three keys on three days: both sums reach the total
C36_Witness ==
    /\ state.total_keystrokes = 3
    /\ state.today_keystrokes = 1
    /\ state.yesterday_keystrokes = 1
    /\ HistoryCount = DAILY_HISTORY_DAYS
    /\ SumHistory(HistoryCount) + state.today_keystrokes = state.total_keystrokes

\* C37: without imports, the newest history entry carries yesterday's count, and
\* yesterday is 0 while the history is empty.
C37_NewestIsYesterday ==
    IF HistoryCount = 0 THEN state.yesterday_keystrokes = 0
    ELSE History[HistoryCount - 1].keystrokes = state.yesterday_keystrokes

\* a full history whose newest entry replaced an older one
C37_Witness ==
    /\ HistoryCount = DAILY_HISTORY_DAYS
    /\ History[0].day >= 1
    /\ state.yesterday_keystrokes >= 1
    /\ History[HistoryCount - 1].keystrokes = state.yesterday_keystrokes

\* the stored entry is one the load handler accepts
Accepted ==
    /\ settings_data # NoData
    /\ settings_data.size_ok
    /\ settings_data.read_rc = 0
    /\ settings_data.data.version = PERSIST_DATA_VERSION

\* the engine is as the initialisation left it after loading the stored snapshot
Restored ==
    /\ Accepted
    /\ state.initialized
    /\ events = 0
    /\ state.current_uptime_day = settings_data.data.current_uptime_day
    /\ state.today_keystrokes = settings_data.data.today_keystrokes

\* C40: the initialisation stores the persisted day index in place of the derived
\* one.  The first pressed key after it, when the persisted day d differs from the
\* derived day, moves the restored today count plus this key to yesterday, zeroes
\* today, adds a history entry for day d with that count and stores the derived
\* day; when d is the derived day it adds one to the restored today count and rolls
\* nothing over.
C40_RolloverAfterBoot ==
    [][/\ op'.name = "init" /\ Accepted =>
            state'.current_uptime_day = settings_data.data.current_uptime_day
       /\ IsPress /\ Restored =>
            LET data == settings_data.data
            IN  IF data.current_uptime_day # DerivedDay
                THEN /\ state'.yesterday_keystrokes = data.today_keystrokes + 1
                     /\ state'.today_keystrokes = 0
                     /\ state'.current_uptime_day = DerivedDay
                     /\ AppendsExactly([year |-> 0, month |-> 0,
                                        day |-> data.current_uptime_day,
                                        keystrokes |-> data.today_keystrokes + 1])
                ELSE /\ state'.today_keystrokes = data.today_keystrokes + 1
                     /\ state'.yesterday_keystrokes = state.yesterday_keystrokes
                     /\ state'.current_uptime_day = data.current_uptime_day
                     /\ state'.daily_history = History
                     /\ state'.daily_history_count = HistoryCount]_vars

\* the first key after a boot that restored a day index the new uptime has not
\* reached
C40_Witness ==
    /\ AfterPress
    /\ Accepted
    /\ events = 1
    /\ now = 0
    /\ settings_data.data.current_uptime_day = 1
    /\ state.current_uptime_day = 0
    /\ state.today_keystrokes = 0
    /\ state.yesterday_keystrokes = settings_data.data.today_keystrokes + 1
    /\ HistoryCount = 1
    /\ History[0].day = 1

(***************************************************************************)
(* C32                                                                     *)
(***************************************************************************)
\* how many times thread th holds stats_mutex
HeldBy(th) == IF mutex = th THEN lock_count ELSE 0

\* C32: re-entrant locking never blocks its own thread and is balanced.  A thread
\* that is in no operation holds stats_mutex zero times, the mutex is free
\* exactly when its lock count is zero, the notification pass of the listener
\* finds the mutex free or its own, and a key event the listener has started to
\* process, with or without observers, is processed to its end.
C32_ReentrantBalanced ==
    /\ [](\A th \in Threads : pc[th] = "idle" => HeldBy(th) = 0)
    /\ []((mutex = NULL) <=> (lock_count = 0))
    /\ [](\A p \in PressPasses :
            pc["input"] = p.enter => k_mutex_lock(mutex, "input") /\ HeldBy("input") = 1)
    /\ (pc["input"] # "idle") ~> (pc["input"] = "idle")

\* the listener's notification pass holds the mutex a second time inside
\* zmk_keystroke_stats_get, with the table of observers full
C32_Witness ==
    /\ pc["input"] = "press_snapshot"
    /\ HeldBy("input") = 2
    /\ state.callback_count = MAX_CALLBACKS

(***************************************************************************)
(* C31, C38                                                                *)
(***************************************************************************)
\* this step is a save request on the initialised engine: a forced save, an
\* expiry of the periodic timer, a reset, or a pressed key that rolls the day over
RequestStep ==
    /\ state.initialized
    /\ \/ op'.name \in {"save", "periodic", "reset"}
       \/ /\ op'.name = "keystroke"
          /\ op'.arg
          /\ get_uptime_day(now) # state.current_uptime_day

\* this step starts a save attempt
AttemptStep == op'.name = "save_begin"

TimesCalled(h) ==
    Cardinality({k \in DOMAIN local["app"].done : local["app"].done[k] = h})

\* this step ends a notification pass of the application thread
PassEnds ==
    /\ op'.name \in {"notify_enter", "notify_test"}
    /\ pc["app"] # "idle"
    /\ pc'["app"] = "idle"

\* C39: a notification pass of reset or import that runs while another thread
\* registers and unregisters calls every observer that stays registered
\* throughout the pass exactly once (h2, which the thread of the pass registered
\* and nobody unregisters), and calls no handler that is out of the table once
\* the unregister call that removed it has returned.
C39_PassCallsEachOnce ==
    [][/\ PassEnds /\ InTable("h2") =>
            /\ op'.name = "notify_test"
            /\ TimesCalled("h2") = 1
       /\ op'.name = "notify_call" =>
            \/ InTable(calls'[1].callback)
            \/ pc["ui"] \in {"unregister_body", "unregister_unlock"}]_vars

====
